---- MODULE Spec2Model ----
(***************************************************************************)
(* Model of the JSON-to-graph compiler (components/json/lib/jsonGraph.ts)  *)
(* and of the tree layout engine (app/JsonFormatter.tsx, layoutJsonGraph). *)
(*                                                                         *)
(* A decoded JSON value is a record                                        *)
(*   [type, lit, keys, items]                                              *)
(* type  : the JavaScript kind of the value,                               *)
(* lit   : the literal text of a scalar ("" for containers),               *)
(* keys  : for an object, its keys in the order the properties were        *)
(*         created (the order of the JSON text); <<>> otherwise,           *)
(* items : the children, parallel to keys for an object, in index order    *)
(*         for an array; <<>> for a scalar.                                *)
(***************************************************************************)
EXTENDS Integers, Sequences, FiniteSets, TLC

(***************************************************************************)
(* Bounds of the model.                                                    *)
(***************************************************************************)
\* the exhaustive family of inputs holds every value with at most this many
\* containers ...
MaxContainers == 2
\* ... each container having at most this many children
MaxLen == 2
\* the finite limits tried are 0..MaxLimit, next to the infinite one
MaxLimit == 2

\* Number.POSITIVE_INFINITY of the "all" preset: a stand-in larger than every
\* length, depth and node count a bounded input can produce
Infinity == 1000000

\* the `undefined` of an absent childId
Undefined == "undefined"
Null == "null"
\* a nullable object is a sequence of length 0 (null) or 1
None == <<>>
Some(x) == <<x>>

(***************************************************************************)
(* JSON values.                                                            *)
(***************************************************************************)
Scalar(t, l) == [type |-> t, lit |-> l, keys |-> <<>>, items |-> <<>>]
Arr(its) == [type |-> "array", lit |-> "", keys |-> <<>>, items |-> its]
Obj(ks, its) == [type |-> "object", lit |-> "", keys |-> ks, items |-> its]

Num == Scalar("number", "1")

\* the scalar documents: one of each scalar kind
RootScalars ==
  { Num, Scalar("string", "s"), Scalar("boolean", "true"),
    Scalar("null", "null") }

\* keys an object of the exhaustive family draws from: an identifier and a
\* canonical array index
KeyPool == {"a", "1"}

\* the numeric value of the keys that are canonical array indices
IntegerKeyValue == ("0" :> 0) @@ ("1" :> 1) @@ ("2" :> 2)

IsIntegerKey(k) == k \in DOMAIN IntegerKeyValue

\* all sequences of n distinct keys of KeyPool
RECURSIVE KeySeqs(_)
KeySeqs(n) ==
  IF n = 0 THEN {<<>>}
  ELSE UNION { { Append(s, k) : k \in KeyPool \ { s[p] : p \in DOMAIN s } }
               : s \in KeySeqs(n - 1) }

\* ItemSeqs(n, c): the sequences of n values holding c containers in all;
\* ValuesOf(c): the values holding exactly c containers
RECURSIVE ItemSeqs(_, _), ValuesOf(_)
ItemSeqs(n, c) ==
  IF n = 0 THEN (IF c = 0 THEN {<<>>} ELSE {})
  ELSE UNION { { <<v>> \o s : v \in ValuesOf(a), s \in ItemSeqs(n - 1, c - a) }
               : a \in 0..c }
ValuesOf(c) ==
  IF c = 0 THEN {Num}
  ELSE UNION { UNION { { Arr(its) } \cup { Obj(ks, its) : ks \in KeySeqs(n) }
                       : its \in ItemSeqs(n, c - 1) }
               : n \in 0..MaxLen }

SmallValues == RootScalars \cup UNION { ValuesOf(c) : c \in 0..MaxContainers }

\* [1, 2, [3, 4]]
ExNested == Arr(<<Num, Num, Arr(<<Num, Num>>)>>)
\* {"a": {"b": {"c": 1}}}
ExChain == Obj(<<"a">>, <<Obj(<<"b">>, <<Obj(<<"c">>, <<Num>>)>>)>>)
\* an object with 5 keys
ExFiveKeys == Obj(<<"a", "b", "c", "d", "e">>, <<Num, Num, Num, Num, Num>>)
\* [[[], 1], [[], 1]]: two sibling cards, each with one child card
ExSiblings == Arr(<<Arr(<<Arr(<<>>), Num>>), Arr(<<Arr(<<>>), Num>>)>>)

\* [1, 1, [], []]: a card of four rows with two empty child cards
ExTallParent == Arr(<<Num, Num, Arr(<<>>), Arr(<<>>)>>)

\* {"q\"": [[]]}: a key that JSON.stringify has to escape
ExQuotedKey == Obj(<<"q\"">>, <<Arr(<<Arr(<<>>)>>)>>)

ExampleValues ==
  {ExNested, ExChain, ExFiveKeys, ExSiblings, ExTallParent, ExQuotedKey}

JsonValues == SmallValues \cup ExampleValues

LimitValues == (0..MaxLimit) \cup {Infinity}

Min(a, b) == IF a <= b THEN a ELSE b
Max(a, b) == IF a >= b THEN a ELSE b

(***************************************************************************)
(* Value Classifier and Path Formatter.                                    *)
(***************************************************************************)
jsonValueType(value) == value.type

\* Array.isArray
IsArray(value) == value.type = "array"

\* isPlainObject: a decoded JSON object always has Object.prototype
isPlainObject(value) == value.type = "object"

isContainer_arraysOnly(value) == IsArray(value)
isContainer(value) == IsArray(value) \/ isPlainObject(value)

\* the keys of an object in for...in order: the canonical array indices in
\* ascending numeric order, then the other keys in creation order
RECURSIVE SortedIntegerKeys(_)
SortedIntegerKeys(S) ==
  IF S = {} THEN <<>>
  ELSE LET k == CHOOSE x \in S :
                  \A y \in S : IntegerKeyValue[x] <= IntegerKeyValue[y]
       IN <<k>> \o SortedIntegerKeys(S \ {k})

OwnKeys_creationOrder(value) == value.keys
OwnKeys(value) ==
  SortedIntegerKeys({ value.keys[p] : p \in DOMAIN value.keys } \cap
                    DOMAIN IntegerKeyValue)
    \o SelectSeq(value.keys, LAMBDA k : ~IsIntegerKey(k))

\* value[key]
Member(value, key) ==
  value.items[CHOOSE p \in DOMAIN value.keys : value.keys[p] = key]

\* the strings previewed here are at most 48 characters long, so the slice
\* of jsonPreview never applies to them
jsonPreview(value) ==
  CASE value.type = "null" -> "null"
    [] value.type = "string" -> "\"" \o value.lit \o "\""
    [] value.type \in {"number", "boolean"} -> value.lit
    [] value.type = "array" -> "Array(" \o ToString(Len(value.items)) \o ")"
    [] value.type = "object" -> "Object(" \o ToString(Len(value.keys)) \o ")"

\* the keys matching /^[A-Za-z_$][A-Za-z0-9_$]*$/ among the keys used
IdentifierKeys == {"a", "b", "c", "d", "e"}

isIdentifierKey(key) == key \in IdentifierKeys

\* a key is a number (array index) or a string (object key)
NumKey(n) == [kind |-> "number", n |-> n, s |-> ""]
StrKey(k) == [kind |-> "string", n |-> 0, s |-> k]

\* JSON.stringify(key): the key in double quotes, with a backslash before
\* each double quote or backslash in it (of the keys used only q" has one)
JsonEscape(s) == IF s = "q\"" THEN "q\\\"" ELSE s
JsonStringify(s) == "\"" \o JsonEscape(s) \o "\""

jsonPathAppend_fromRoot(path, key) ==
  IF key.kind = "number" THEN "$[" \o ToString(key.n) \o "]"
  ELSE IF isIdentifierKey(key.s) THEN "$." \o key.s
  ELSE "$[" \o JsonStringify(key.s) \o "]"
jsonPathAppend(path, key) ==
  IF key.kind = "number" THEN path \o "[" \o ToString(key.n) \o "]"
  ELSE IF isIdentifierKey(key.s) THEN path \o "." \o key.s
  ELSE path \o "[" \o JsonStringify(key.s) \o "]"

(***************************************************************************)
(* Graph Builder: the state of one call of buildJsonGraph.                 *)
(***************************************************************************)
VARIABLES
  root,                \* the decoded value given to buildJsonGraph
  maxDepth, maxNodes, maxChildrenPerNode,      \* options
  nodes,               \* JsonGraphNode[]; nodesById is the lookup NodeById
  edges,               \* JsonGraphEdge[]
  truncated, truncatedBy,
  nextId,
  queue,               \* QueueItem[]
  qi,                  \* index of the worklist loop (0-based, as in the code)
  rows,                \* the rows being built for queue[qi]
  i,                   \* index of the array loop
  visible,             \* Math.min(value.length, maxChildrenPerNode)
  keyPos,              \* number of keys the for...in loop has gone through
  shown, hasMore,      \* locals of the object branch
  pc,                  \* position in buildJsonGraph, then in the caller
  rects, bounds        \* the GraphLayout of the returned graph

\* what the callers of buildJsonGraph and layoutJsonGraph hold
VARIABLES
  returnedGraphs,      \* the calls of buildJsonGraph that returned earlier
  layouts              \* the layouts computed earlier

sessionVars == <<returnedGraphs, layouts>>

\* JsonFlowCanvas: props, state, memo and the layout effects it started
VARIABLES
  flowMounted,         \* the component is mounted
  flowGraph,           \* the graph prop of the last render
  flowTheme,           \* useTheme().theme of the last render
  flowBase,            \* the base memo
  flowNodes, flowEdges,                        \* useState
  flowSelectedPath,    \* useState; set by onNodeClick, cleared by the effect
  flowEffects,         \* the closures of the layout effects run so far
  flowCleanup          \* the effect whose cleanup React holds (0: none)

flowVars ==
  <<flowMounted, flowGraph, flowTheme, flowBase, flowNodes, flowEdges,
    flowSelectedPath, flowEffects, flowCleanup>>

\* JsonCanvas: element size, state, refs and the deps of the fit effect
VARIABLES
  viewWidth, viewHeight,       \* useElementSize(containerRef)
  view,                \* useState({ offsetX, offsetY, scale })
  selectedId,          \* useState(null)
  dragRef,             \* useRef(null)
  fitDeps,             \* [height, layout, width] of the last fit effect run
  gestures, zooms,     \* the events and the "+" clicks handled so far
  viewOp               \* the handler that set the view last

viewVars ==
  <<viewWidth, viewHeight, view, selectedId, dragRef, fitDeps, gestures,
    zooms, viewOp>>

\* JsonFormatter: the input text, the parsed value the graph is built from,
\* whether the output is non-empty and its kind, whether an error is shown,
\* the clipboard and file reads in flight, and the operations completed last
VARIABLES
  input, parsedValue, hasOutput, outputKind, hasError, pastePending,
  filePending, lastOp, lastActing
formVars ==
  <<input, parsedValue, hasOutput, outputKind, hasError, pastePending,
    filePending, lastOp, lastActing>>

appVars == <<sessionVars, flowVars, viewVars, formVars>>

buildVars ==
  <<nodes, edges, truncated, truncatedBy, nextId, queue, qi, rows, i,
    visible, keyPos, shown, hasMore>>
inputVars == <<root, maxDepth, maxNodes, maxChildrenPerNode>>
layoutVars == <<rects, bounds>>
vars == <<inputVars, buildVars, pc, layoutVars, appVars>>

\* the key of the synthetic "more" row (the character U+2026 in the code)
MoreKey == "..."

NoBounds == [minX |-> 0, minY |-> 0, maxX |-> 0, maxY |-> 0]

\* nodesById.get(id): the node of that id, as nodes holds it now
HasNode(id) == \E k \in DOMAIN nodes : nodes[k].id = id
NodeById(id) == nodes[CHOOSE k \in DOMAIN nodes : nodes[k].id = id]

markTruncated_noFlag(reason) ==
  [truncated |-> TRUE, truncatedBy |-> truncatedBy]
markTruncated_silent(reason) ==
  [truncated |-> truncated, truncatedBy |-> [truncatedBy EXCEPT ![reason] = TRUE]]
markTruncated_onlyLast(reason) ==
  [truncated |-> TRUE,
   truncatedBy |-> [r \in DOMAIN truncatedBy |-> r = reason]]
markTruncated(reason) ==
  [truncated |-> TRUE, truncatedBy |-> [truncatedBy EXCEPT ![reason] = TRUE]]

\* pushNode on the node list ns with the id counter at nid
pushNode_preIncrement(ns, nid, label, path, value, depth) ==
  LET id == "n" \o ToString(nid + 1)
      node == [id |-> id, label |-> label, path |-> path, depth |-> depth,
               type |-> jsonValueType(value), summary |-> jsonPreview(value),
               rows |-> <<>>]
  IN [id |-> id, nodes |-> Append(ns, node), nextId |-> nid + 1]
pushNode_gated(ns, nid, label, path, value, depth) ==
  LET id == "n" \o ToString(nid)
      node == [id |-> id, label |-> label, path |-> path, depth |-> depth,
               type |-> jsonValueType(value), summary |-> jsonPreview(value),
               rows |-> <<>>]
  IN [id |-> id,
      nodes |-> IF Len(ns) >= maxNodes THEN ns ELSE Append(ns, node),
      nextId |-> nid + 1]
pushNode(ns, nid, label, path, value, depth) ==
  LET id == "n" \o ToString(nid)
      node == [id |-> id, label |-> label, path |-> path, depth |-> depth,
               type |-> jsonValueType(value), summary |-> jsonPreview(value),
               rows |-> <<>>]
  IN [id |-> id, nodes |-> Append(ns, node), nextId |-> nid + 1]

\* what tryAddChild leaves behind: the lists, the flags and the returned id
Unchanged(childId) ==
  [nodes |-> nodes, edges |-> edges, queue |-> queue, nextId |-> nextId,
   truncated |-> truncated, truncatedBy |-> truncatedBy, childId |-> childId]

\* `depth >= maxDepth`, the depth gate of tryAddChild
DepthGate_late(depth) == depth > maxDepth
DepthGate_never(depth) == FALSE
DepthGate(depth) == depth >= maxDepth

\* `nodes.length >= maxNodes`, the node-count gate of tryAddChild
NodesGate_late == Len(nodes) > maxNodes
NodesGate_never == FALSE
NodesGate == Len(nodes) >= maxNodes

\* the edge tryAddChild records
NewEdge_swapped(parentId, childId, rowIndex) ==
  [from |-> childId, to |-> parentId, fromRow |-> rowIndex]
NewEdge_nextRow(parentId, childId, rowIndex) ==
  [from |-> parentId, to |-> childId, fromRow |-> rowIndex + 1]
NewEdge_firstRow(parentId, childId, rowIndex) ==
  [from |-> parentId, to |-> childId, fromRow |-> 0]
NewEdge(parentId, childId, rowIndex) ==
  [from |-> parentId, to |-> childId, fromRow |-> rowIndex]

tryAddChild(parentId, rowIndex, label, childPath, childValue, depth) ==
  IF ~isContainer(childValue) THEN Unchanged(Undefined)
  ELSE IF DepthGate(depth)
    THEN [Unchanged(Undefined) EXCEPT
            !.truncated = markTruncated("depth").truncated,
            !.truncatedBy = markTruncated("depth").truncatedBy]
  ELSE IF NodesGate
    THEN [Unchanged(Undefined) EXCEPT
            !.truncated = markTruncated("nodes").truncated,
            !.truncatedBy = markTruncated("nodes").truncatedBy]
  ELSE LET pushed == pushNode(nodes, nextId, label, childPath, childValue,
                              depth + 1)
       IN [nodes |-> pushed.nodes,
           edges |-> Append(edges, NewEdge(parentId, pushed.id, rowIndex)),
           queue |-> Append(queue, [id |-> pushed.id, value |-> childValue,
                                    path |-> childPath, depth |-> depth + 1]),
           nextId |-> pushed.nextId,
           truncated |-> truncated, truncatedBy |-> truncatedBy,
           childId |-> pushed.id]

\* queue[qi]
Current == queue[qi + 1]

\* qi++ of `for (let qi = 0; qi < queue.length; qi++)`
NextQi_stay == qi
NextQi == qi + 1

\* node.rows = rows
SetRows(ns, id, rs) ==
  [k \in DOMAIN ns |-> IF ns[k].id = id THEN [ns[k] EXCEPT !.rows = rs]
                       ELSE ns[k]]

Init ==
  /\ root \in JsonValues
  /\ maxDepth \in LimitValues
  /\ maxNodes \in LimitValues
  /\ maxChildrenPerNode \in LimitValues
  /\ nodes = <<>> /\ edges = <<>>
  /\ truncated = FALSE
  /\ truncatedBy = [depth |-> FALSE, nodes |-> FALSE, children |-> FALSE]
  /\ nextId = 0
  /\ queue = <<>> /\ qi = 0
  /\ rows = <<>> /\ i = 0 /\ visible = 0
  /\ keyPos = 0 /\ shown = 0 /\ hasMore = FALSE
  /\ pc = "start"
  /\ rects = <<>> /\ bounds = NoBounds
  /\ returnedGraphs = <<>> /\ layouts = <<>>
  /\ flowMounted = FALSE
  /\ flowGraph = None /\ flowTheme = "light" /\ flowBase = None
  /\ flowNodes = <<>> /\ flowEdges = <<>> /\ flowSelectedPath = Null
  /\ flowEffects = <<>> /\ flowCleanup = 0
  /\ viewWidth = 0 /\ viewHeight = 0
  /\ view = [offsetX |-> [n |-> 24, d |-> 1], offsetY |-> [n |-> 24, d |-> 1],
             scale |-> [n |-> 1, d |-> 1]]
  /\ selectedId = Null
  /\ dragRef = None
  /\ fitDeps = <<0, None, 0>>
  /\ gestures = 0 /\ zooms = 0
  /\ viewOp = "useState"
  /\ input = "" /\ parsedValue = None
  /\ hasOutput = FALSE /\ outputKind = Null
  /\ hasError = FALSE
  /\ pastePending = 0 /\ filePending = 0
  /\ lastOp = None /\ lastActing = None

\* const rootId = pushNode("$", "$", root, 0); const queue = [...]
Start ==
  /\ pc = "start"
  /\ LET pushed == pushNode(nodes, nextId, "$", "$", root, 0)
     IN /\ nodes' = pushed.nodes
        /\ nextId' = pushed.nextId
        /\ queue' = <<[id |-> pushed.id, value |-> root, path |-> "$",
                       depth |-> 0]>>
  /\ qi' = 0
  /\ pc' = "loop"
  /\ UNCHANGED <<appVars, inputVars, edges, truncated, truncatedBy, rows, i, visible,
                 keyPos, shown, hasMore, layoutVars>>

\* the head of one iteration of the worklist loop, up to the first child
Dequeue ==
  /\ pc = "loop"
  /\ qi < Len(queue)
  /\ UNCHANGED <<appVars, inputVars, nodes, edges, nextId, queue, layoutVars, i,
                 keyPos, shown, hasMore, rows>>
  /\ IF ~HasNode(Current.id) \/ ~isContainer(Current.value)
     THEN /\ qi' = NextQi
          /\ UNCHANGED <<pc, visible, truncated, truncatedBy>>
     ELSE IF IsArray(Current.value)
     THEN LET len == Len(Current.value.items)
              vis == Min(len, maxChildrenPerNode)
          IN /\ visible' = vis
             /\ truncated' = IF len > vis THEN markTruncated("children").truncated
                             ELSE truncated
             /\ truncatedBy' = IF len > vis
                               THEN markTruncated("children").truncatedBy
                               ELSE truncatedBy
             /\ pc' = "array"
             /\ qi' = qi
     ELSE /\ pc' = "object"
          /\ UNCHANGED <<qi, visible, truncated, truncatedBy>>

\* one iteration of `for (let i = 0; i < visible; i++)`
ArrayChild ==
  /\ pc = "array"
  /\ i < visible
  /\ LET childValue == Current.value.items[i + 1]
         rowIndex == Len(rows)
         childPath == jsonPathAppend(Current.path, NumKey(i))
         r == tryAddChild(Current.id, rowIndex, "[" \o ToString(i) \o "]",
                          childPath, childValue, Current.depth)
     IN /\ nodes' = r.nodes /\ edges' = r.edges /\ queue' = r.queue
        /\ nextId' = r.nextId
        /\ truncated' = r.truncated /\ truncatedBy' = r.truncatedBy
        /\ rows' = Append(rows, [key |-> ToString(i),
                                 value |-> jsonPreview(childValue),
                                 childId |-> r.childId])
  /\ i' = i + 1
  /\ UNCHANGED <<appVars, inputVars, qi, visible, keyPos, shown, hasMore, pc,
                 layoutVars>>

\* the end of the array branch: the "more" row, node.rows = rows; continue
ArrayEnd ==
  /\ pc = "array"
  /\ i >= visible
  /\ LET len == Len(Current.value.items)
         final == IF len > visible
                  THEN Append(rows, [key |-> MoreKey,
                                     value |-> "+" \o ToString(len - visible)
                                                 \o " more",
                                     childId |-> Undefined])
                  ELSE rows
     IN nodes' = SetRows(nodes, Current.id, final)
  /\ rows' = <<>> /\ i' = 0 /\ visible' = 0
  /\ qi' = NextQi
  /\ pc' = "loop"
  /\ UNCHANGED <<appVars, inputVars, edges, truncated, truncatedBy, nextId, queue,
                 keyPos, shown, hasMore, layoutVars>>

\* one iteration of `for (const key in value)`
ObjectChild ==
  /\ pc = "object"
  /\ ~hasMore
  /\ keyPos < Len(OwnKeys(Current.value))
  /\ UNCHANGED <<appVars, inputVars, qi, i, visible, pc, layoutVars>>
  /\ IF shown >= maxChildrenPerNode
     THEN /\ hasMore' = TRUE
          /\ truncated' = markTruncated("children").truncated
          /\ truncatedBy' = markTruncated("children").truncatedBy
          /\ UNCHANGED <<nodes, edges, queue, nextId, rows, shown, keyPos>>
     ELSE LET key == OwnKeys(Current.value)[keyPos + 1]
              childValue == Member(Current.value, key)
              rowIndex == Len(rows)
              childPath == jsonPathAppend(Current.path, StrKey(key))
              r == tryAddChild(Current.id, rowIndex, key, childPath,
                               childValue, Current.depth)
          IN /\ nodes' = r.nodes /\ edges' = r.edges /\ queue' = r.queue
             /\ nextId' = r.nextId
             /\ truncated' = r.truncated /\ truncatedBy' = r.truncatedBy
             /\ rows' = Append(rows, [key |-> key,
                                      value |-> jsonPreview(childValue),
                                      childId |-> r.childId])
             /\ shown' = shown + 1
             /\ keyPos' = keyPos + 1
             /\ UNCHANGED hasMore

\* the end of the object branch: the "more" row, node.rows = rows
ObjectEnd ==
  /\ pc = "object"
  /\ hasMore \/ keyPos >= Len(OwnKeys(Current.value))
  /\ LET final == IF hasMore
                  THEN Append(rows, [key |-> MoreKey, value |-> "more fields",
                                     childId |-> Undefined])
                  ELSE rows
     IN nodes' = SetRows(nodes, Current.id, final)
  /\ rows' = <<>> /\ keyPos' = 0 /\ shown' = 0 /\ hasMore' = FALSE
  /\ qi' = NextQi
  /\ pc' = "loop"
  /\ UNCHANGED <<appVars, inputVars, edges, truncated, truncatedBy, nextId, queue, i,
                 visible, layoutVars>>

\* return { rootId, nodes, edges, truncated, truncatedBy }
Return ==
  /\ pc = "loop"
  /\ qi >= Len(queue)
  /\ pc' = "returned"
  /\ UNCHANGED <<appVars, inputVars, buildVars, layoutVars>>

(***************************************************************************)
(* Tree Layout Engine.  Lengths are counted in 1/LayoutUnit of a pixel, so *)
(* that the halvings of dfs are exact, as they are in the doubles of the   *)
(* code; Half has no value when a halving would not be exact.              *)
(***************************************************************************)
LayoutUnit == 2 ^ (MaxContainers + 3)
Px(n) == n * LayoutUnit
Half(x) == CHOOSE h \in {x \div 2} : 2 * h = x

nodeWidth == 280
headerHeight == 26
rowHeight == 18
paddingY == 10
xGap == 120
yGap == 26
padding == 28

\* bucket.sort((a, b) => a.fromRow - b.fromRow): a stable sort
RECURSIVE SortByFromRow(_)
SortByFromRow_unsorted(bucket) == bucket
SortByFromRow(bucket) ==
  IF Len(bucket) <= 1 THEN bucket
  ELSE LET sortedTail == SortByFromRow(Tail(bucket))
           e == Head(bucket)
           \* e stays before the elements of an equal fromRow
           before == SelectSeq(sortedTail, LAMBDA x : x.fromRow < e.fromRow)
           after == SelectSeq(sortedTail, LAMBDA x : x.fromRow >= e.fromRow)
       IN before \o <<e>> \o after

\* childrenByParent.get(nodeId) ?? []
childrenByParent(graphEdges, nodeId) ==
  SortByFromRow(SelectSeq(graphEdges, LAMBDA e : e.from = nodeId))

measureNodeHeight(node) ==
  Px(paddingY * 2 + headerHeight + Len(node.rows) * rowHeight)

\* rects.set(id, rect) on the insertion-ordered Map rs
RectSet(rs, id, rect) ==
  IF \E k \in DOMAIN rs : rs[k].id = id
  THEN [k \in DOMAIN rs |-> IF rs[k].id = id THEN rect ELSE rs[k]]
  ELSE Append(rs, rect)

HasRect(rs, id) == \E k \in DOMAIN rs : rs[k].id = id
RectOf(rs, id) == rs[CHOOSE k \in DOMAIN rs : rs[k].id = id]

\* nextY += h + yGap
NextYAfter_noHeight(y, h) == y + Px(yGap)
NextYAfter(y, h) == y + h + Px(yGap)

NoInfo == [top |-> 0, bottom |-> 0, center |-> 0]

\* x: padding + depth * (nodeWidth + xGap)
NodeX_noMargin(depth) == Px(depth * (nodeWidth + xGap))
NodeX(depth) == Px(padding + depth * (nodeWidth + xGap))

\* (first.center + last.center) / 2
ParentCenter_firstOnly(first, last) == first.center
ParentCenter(first, last) == Half(first.center + last.center)

RECURSIVE SeqMin(_), SeqMax(_)
SeqMin(xs) == IF Len(xs) = 1 THEN xs[1] ELSE Min(xs[1], SeqMin(Tail(xs)))
SeqMax(xs) == IF Len(xs) = 1 THEN xs[1] ELSE Max(xs[1], SeqMax(Tail(xs)))

\* dfs of layoutJsonGraph on the graph g; L holds the rects, nextY and
\* visited of the enclosing call.  dfsChildren is its loop over the children.
RECURSIVE dfs(_, _, _, _), dfsChildren(_, _, _, _, _)
dfsChildren(g, L, children, k, depth) ==
  IF k > Len(children) THEN [L |-> L, infos |-> <<>>]
  ELSE LET one == dfs(g, L, children[k].to, depth)
           rest == dfsChildren(g, one.L, children, k + 1, depth)
       IN [L |-> rest.L, infos |-> <<one.info>> \o rest.infos]

dfs(g, L, nodeId, depth) ==
  IF ~(\E k \in DOMAIN g.nodes : g.nodes[k].id = nodeId)
  THEN [L |-> L, info |-> NoInfo]
  ELSE IF nodeId \in L.visited THEN [L |-> L, info |-> NoInfo]
  ELSE
    LET node == g.nodes[CHOOSE k \in DOMAIN g.nodes : g.nodes[k].id = nodeId]
        L1 == [L EXCEPT !.visited = @ \cup {nodeId}]
        h == measureNodeHeight(node)
        children == childrenByParent(g.edges, nodeId)
        x == NodeX(depth)
    IN IF Len(children) = 0
       THEN LET y == L1.nextY
            IN [L |-> [L1 EXCEPT
                         !.rects = RectSet(@, nodeId,
                                           [id |-> nodeId, x |-> x, y |-> y,
                                            w |-> Px(nodeWidth), h |-> h]),
                         !.nextY = NextYAfter(@, h)],
                info |-> [top |-> y, bottom |-> y + h,
                          center |-> y + Half(h)]]
       ELSE LET sub == dfsChildren(g, L1, children, 1, depth + 1)
                first == sub.infos[1]
                last == sub.infos[Len(sub.infos)]
                center == ParentCenter(first, last)
                y == center - Half(h)
                tops == [k \in DOMAIN sub.infos |-> sub.infos[k].top]
                bottoms == [k \in DOMAIN sub.infos |-> sub.infos[k].bottom]
            IN [L |-> [sub.L EXCEPT
                         !.rects = RectSet(@, nodeId,
                                           [id |-> nodeId, x |-> x, y |-> y,
                                            w |-> Px(nodeWidth), h |-> h])],
                info |-> [top |-> Min(y, SeqMin(tops)),
                          bottom |-> Max(y + h, SeqMax(bottoms)),
                          center |-> y + Half(h)]]

\* the loop placing the nodes the traversal did not reach, from nodes[k] on
RECURSIVE PlaceRest(_, _, _)
PlaceRest(g, L, k) ==
  IF k > Len(g.nodes) THEN L
  ELSE IF HasRect(L.rects, g.nodes[k].id) THEN PlaceRest(g, L, k + 1)
  ELSE LET h == measureNodeHeight(g.nodes[k])
       IN PlaceRest(g,
                    [L EXCEPT
                       !.rects = RectSet(@, g.nodes[k].id,
                                         [id |-> g.nodes[k].id,
                                          x |-> Px(padding), y |-> L.nextY,
                                          w |-> Px(nodeWidth), h |-> h]),
                       !.nextY = NextYAfter(@, h)],
                    k + 1)

GraphBounds_corners(rs) ==
  IF Len(rs) > 0
  THEN [minX |-> SeqMin([k \in DOMAIN rs |-> rs[k].x]),
        minY |-> SeqMin([k \in DOMAIN rs |-> rs[k].y]),
        maxX |-> SeqMax([k \in DOMAIN rs |-> rs[k].x]),
        maxY |-> SeqMax([k \in DOMAIN rs |-> rs[k].y])]
  ELSE NoBounds
GraphBounds(rs) ==
  IF Len(rs) > 0
  THEN [minX |-> SeqMin([k \in DOMAIN rs |-> rs[k].x]),
        minY |-> SeqMin([k \in DOMAIN rs |-> rs[k].y]),
        maxX |-> SeqMax([k \in DOMAIN rs |-> rs[k].x + rs[k].w]),
        maxY |-> SeqMax([k \in DOMAIN rs |-> rs[k].y + rs[k].h])]
  ELSE NoBounds

\* the rects, nextY and visited a call of layoutJsonGraph starts from
LayoutEntry_stale ==
  [rects |-> <<>>,
   nextY |-> IF rects = <<>> THEN Px(padding) ELSE bounds.maxY + Px(yGap),
   visited |-> {}]
LayoutEntry == [rects |-> <<>>, nextY |-> Px(padding), visited |-> {}]

layoutJsonGraph(g) ==
  LET L0 == LayoutEntry
      L1 == IF Len(g.nodes) > 0 THEN dfs(g, L0, g.rootId, 0).L ELSE L0
      L2 == PlaceRest(g, L1, 1)
  IN [rects |-> L2.rects, bounds |-> GraphBounds(L2.rects)]

\* the rootId of the result: the id pushNode returned for the root
rootId == IF Len(queue) > 0 THEN queue[1].id ELSE Undefined

\* the graph buildJsonGraph returned
Graph == [rootId |-> rootId, nodes |-> nodes, edges |-> edges]

\* JsonCanvas: const layout = useMemo(() => layoutJsonGraph(graph), [graph])
Layout ==
  /\ pc = "returned"
  /\ LET layout == layoutJsonGraph(Graph)
     IN /\ rects' = layout.rects
        /\ bounds' = layout.bounds
  /\ pc' = "laid"
  /\ UNCHANGED <<appVars, inputVars, buildVars>>

(***************************************************************************)
(* Repeated calls: JsonFormatter rebuilds the graph when parsedValue or    *)
(* graphOptions change, JsonCanvas lays the graph out again on a render.   *)
(***************************************************************************)
\* the calls of buildJsonGraph followed in one behaviour
MaxCalls == 2
\* { rootId, nodes, edges, truncated, truncatedBy }
Result ==
  [rootId |-> rootId, nodes |-> nodes, edges |-> edges,
   truncated |-> truncated, truncatedBy |-> truncatedBy]

Options ==
  [maxDepth |-> maxDepth, maxNodes |-> maxNodes,
   maxChildrenPerNode |-> maxChildrenPerNode]

InfiniteOptions ==
  [maxDepth |-> Infinity, maxNodes |-> Infinity,
   maxChildrenPerNode |-> Infinity]

\* {"a": [], "1": 1}
ExMixedKeys == Obj(<<"a", "1">>, <<Arr(<<>>), Num>>)

\* the documents of a session with several calls
SessionValues == {Num, ExNested, ExChain, ExMixedKeys}

\* let nextId = 0
EntryNextId_kept == nextId
EntryNextId == 0

CurrentLayout == [graph |-> Graph, rects |-> rects, bounds |-> bounds]

\* a further call of buildJsonGraph, with the same or with other arguments:
\* everything the function declares starts afresh
Rebuild ==
  /\ pc \in {"returned", "laid"}
  /\ Len(returnedGraphs) < MaxCalls - 1
  /\ returnedGraphs' =
       Append(returnedGraphs,
              [root |-> root, options |-> Options, graph |-> Result])
  /\ layouts' = IF pc = "laid" THEN Append(layouts, CurrentLayout) ELSE layouts
  /\ root' \in SessionValues
  /\ \E o \in {Options, InfiniteOptions} :
       /\ maxDepth' = o.maxDepth
       /\ maxNodes' = o.maxNodes
       /\ maxChildrenPerNode' = o.maxChildrenPerNode
  /\ nodes' = <<>> /\ edges' = <<>>
  /\ truncated' = FALSE
  /\ truncatedBy' = [depth |-> FALSE, nodes |-> FALSE, children |-> FALSE]
  /\ nextId' = EntryNextId
  /\ queue' = <<>> /\ qi' = 0
  /\ rows' = <<>> /\ i' = 0 /\ visible' = 0
  /\ keyPos' = 0 /\ shown' = 0 /\ hasMore' = FALSE
  /\ pc' = "start"
  /\ rects' = <<>> /\ bounds' = NoBounds
  /\ UNCHANGED <<flowVars, viewVars, formVars>>

\* a further call of layoutJsonGraph on the same graph
Relayout ==
  /\ pc = "laid"
  /\ \A l \in DOMAIN layouts : layouts[l].graph # Graph
  /\ layouts' = Append(layouts, CurrentLayout)
  /\ LET layout == layoutJsonGraph(Graph)
     IN /\ rects' = layout.rects
        /\ bounds' = layout.bounds
  /\ UNCHANGED <<inputVars, buildVars, pc, formVars, returnedGraphs, flowVars, viewVars>>

Next ==
  \/ Start
  \/ Dequeue
  \/ ArrayChild
  \/ ArrayEnd
  \/ ObjectChild
  \/ ObjectEnd
  \/ Return
  \/ Layout

Spec == Init /\ [][Next]_vars

InitSession == Init /\ root \in SessionValues

NextSession ==
  \/ Next
  \/ Rebuild
  \/ Relayout

SpecSession == InitSession /\ [][NextSession]_vars

\* buildJsonGraph is synchronous code: a call that has a next statement
\* executes it.  BuildValues are the documents whose builds are followed to
\* their end: the scalars, the containers of scalars and the examples.
BuildValues ==
  RootScalars \cup ValuesOf(0) \cup ValuesOf(1) \cup ExampleValues
    \cup {ExMixedKeys}
InitBuild == Init /\ root \in BuildValues
BuildStep ==
  Start \/ Dequeue \/ ArrayChild \/ ArrayEnd \/ ObjectChild \/ ObjectEnd
    \/ Return
SpecBuild == InitBuild /\ [][Next]_vars /\ WF_vars(BuildStep)

(***************************************************************************)
(* layoutJsonGraph applied to graphs other than the one just built: the    *)
(* function is exported and accepts any JsonGraph.  GraphVariants(g) are   *)
(* the built graph, the graph with its edges listed in the opposite order, *)
(* the graphs that lack one edge (the subtree below it is unreachable),    *)
(* the graph whose rootId names no node, and the graph with no nodes.      *)
(***************************************************************************)
Reverse(s) == [k \in DOMAIN s |-> s[Len(s) + 1 - k]]
RemoveAt(s, k) == SubSeq(s, 1, k - 1) \o SubSeq(s, k + 1, Len(s))

GraphVariants(g) ==
  {g, [g EXCEPT !.edges = Reverse(@)], [g EXCEPT !.rootId = Undefined],
   [rootId |-> g.rootId, nodes |-> <<>>, edges |-> <<>>]}
    \cup { [g EXCEPT !.edges = RemoveAt(@, e)] : e \in DOMAIN g.edges }

\* a call layoutJsonGraph(g); the history keeps its argument and result
LayoutAny ==
  /\ pc = "returned"
  /\ layouts = <<>>
  /\ \E g \in GraphVariants(Graph) :
       LET layout == layoutJsonGraph(g)
       IN layouts' = <<[graph |-> g, rects |-> layout.rects,
                        bounds |-> layout.bounds]>>
  /\ UNCHANGED <<inputVars, buildVars, pc, formVars, layoutVars, returnedGraphs,
                 flowVars, viewVars>>

\* the documents laid out, built without limits or with a children limit
InitLayout ==
  /\ Init
  /\ maxDepth = Infinity /\ maxNodes = Infinity

NextLayout ==
  \/ Next
  \/ LayoutAny

SpecLayout == InitLayout /\ [][NextLayout]_vars

(***************************************************************************)
(* Numbers of the canvas view. A JavaScript number is a double; the model  *)
(* keeps a number as a fraction n/d in lowest terms with n and d below     *)
(* Mantissa, exact whenever the exact result is of that form and rounded   *)
(* to the nearest multiple of a power of 1/2 otherwise.                    *)
(***************************************************************************)
Mantissa == 2 ^ 15

Abs(x) == IF x < 0 THEN -x ELSE x

RECURSIVE GCD(_, _)
GCD(a, b) == IF b = 0 THEN a ELSE GCD(b, a % b)

\* the fraction n/d in lowest terms, d > 0
Rat(n, d) ==
  LET g == GCD(Abs(n), Abs(d))
  IN IF d < 0 THEN [n |-> (-n) \div g, d |-> (-d) \div g]
     ELSE [n |-> n \div g, d |-> d \div g]

Whole(k) == [n |-> k, d |-> 1]

\* round(n * 2^k / d) for n >= 0: long division, one binary digit a step
RECURSIVE RoundScaled(_, _, _)
RoundScaled(n, d, k) ==
  IF k = 0
  THEN (n \div d) + (IF 2 * (n % d) >= d THEN 1 ELSE 0)
  ELSE (n \div d) * (2 ^ k) + RoundScaled(2 * (n % d), d, k - 1)

\* the largest k with (whole + 1) * 2^k <= Mantissa
RECURSIVE Exponent(_, _)
Exponent(whole, k) ==
  IF (whole + 1) * (2 ^ (k + 1)) <= Mantissa THEN Exponent(whole, k + 1) ELSE k

\* the number kept for the exact result n/d
Fl(n, d) ==
  LET q == Rat(n, d)
  IN IF Abs(q.n) < Mantissa /\ q.d < Mantissa THEN q
     ELSE LET k == Exponent(Abs(q.n) \div q.d, 0)
              m == RoundScaled(Abs(q.n), q.d, k)
          IN Rat(IF q.n < 0 THEN -m ELSE m, 2 ^ k)

RAdd(a, b) == Fl(a.n * b.d + b.n * a.d, a.d * b.d)
RSub(a, b) == Fl(a.n * b.d - b.n * a.d, a.d * b.d)
RMul(a, b) == Fl(a.n * b.n, a.d * b.d)
RDiv(a, b) == Fl(a.n * b.d, a.d * b.n)
RLe(a, b) == a.n * b.d <= b.n * a.d
RLt(a, b) == a.n * b.d < b.n * a.d
\* Math.min, Math.max
RMin(a, b) == IF RLe(a, b) THEN a ELSE b
RMax(a, b) == IF RLe(b, a) THEN a ELSE b

\* Math.max(min, Math.min(max, value))
clamp_noMax(value, min, max) == RMax(min, value)
clamp(value, min, max) == RMax(min, RMin(max, value))

(***************************************************************************)
(* JsonFlowCanvas: the layout effect and the ELK promises it starts.       *)
(***************************************************************************)
\* the layout effects followed in one behaviour
MaxEffects == 2

Themes == {"light", "dark"}

\* the object the current call of buildJsonGraph returned; React compares
\* the graph prop by identity, so the call is part of it
GraphProp == [call |-> Len(returnedGraphs) + 1, graph |-> Result]

\* graph is null while parsedValue is undefined
GraphProps == {None, Some(GraphProp)}

\* the first document shown in the flow view
FlowValues == {ExNested}

\* header 42, padding 18, row 18, at most 18 visible rows
nodeHeight(rowCount) == 42 + 18 + Min(rowCount, 18) * 18

edgeColor(theme) ==
  IF theme = "dark" THEN "rgba(226,232,240,0.55)"
  ELSE "rgba(148,163,184,0.65)"

\* the base memo of a render with graph prop g
Base(g, theme) ==
  IF g = None THEN None
  ELSE LET gr == g[1].graph
       IN Some([nodes |->
                  [k \in DOMAIN gr.nodes |->
                     [id |-> gr.nodes[k].id, type |-> "jsonNode",
                      position |-> [x |-> 0, y |-> 0],
                      data |-> [node |-> gr.nodes[k]]]],
                edges |->
                  [k \in DOMAIN gr.edges |->
                     [id |-> "e" \o ToString(k - 1),
                      source |-> gr.edges[k].from,
                      target |-> gr.edges[k].to,
                      stroke |-> edgeColor(theme)]]])

elkNodes(gr) ==
  [k \in DOMAIN gr.nodes |->
     [id |-> gr.nodes[k].id, width |-> 280,
      height |-> nodeHeight(Len(gr.nodes[k].rows))]]

elkEdges(gr) ==
  [k \in DOMAIN gr.edges |->
     [id |-> "e" \o ToString(k - 1), sources |-> <<gr.edges[k].from>>,
      targets |-> <<gr.edges[k].to>>]]

\* elkjs is a dependency, outside the repository: its result is represented
\* by one child per submitted node, placed by layer (direction RIGHT, 110
\* between layers) and stacked by height (30 between nodes)
RECURSIVE ElkLayer(_, _)
ElkLayer(es, id) ==
  IF \E k \in DOMAIN es : es[k].targets = <<id>>
  THEN LET k == CHOOSE k \in DOMAIN es : es[k].targets = <<id>>
       IN 1 + ElkLayer(es, es[k].sources[1])
  ELSE 0

RECURSIVE ElkY(_, _)
ElkY(ns, k) ==
  IF k = 1 THEN 0 ELSE ElkY(ns, k - 1) + ns[k - 1].height + 30

elkLayout(ns, es) ==
  [id |-> "root",
   children |->
     [k \in DOMAIN ns |->
        [id |-> ns[k].id,
         x |-> ElkLayer(es, ns[k].id) * (ns[k].width + 110),
         y |-> ElkY(ns, k)]]]

\* positions.get(node.id) ?? { x: 0, y: 0 }
PositionOf(result, id) ==
  IF \E k \in DOMAIN result.children : result.children[k].id = id
  THEN LET k == CHOOSE k \in DOMAIN result.children :
                  result.children[k].id = id
       IN [x |-> result.children[k].x, y |-> result.children[k].y]
  ELSE [x |-> 0, y |-> 0]

\* base.nodes.map((node) => ({ ...node, position: ... }))
Positioned(base, result) ==
  [k \in DOMAIN base.nodes |->
     [base.nodes[k] EXCEPT !.position = PositionOf(result, base.nodes[k].id)]]

\* if (cancelled) return
Cancelled_never(effect) == FALSE
Cancelled(effect) == effect.cancelled

\* return () => { cancelled = true }, run for the effect React holds
CleanedUp ==
  IF flowCleanup = 0 THEN flowEffects
  ELSE [flowEffects EXCEPT ![flowCleanup].cancelled = TRUE]

\* the promise callbacks run between renders, never inside buildJsonGraph
JsIdle == pc \in {"returned", "laid"}

\* useEffect(() => {...}, [base, graph]) of a render with graph prop g;
\* ns, es, sel are the state the render had
LayoutEffect(g, base, ns, es, sel) ==
  IF g = None \/ base = None
  THEN /\ flowNodes' = <<>> /\ flowEdges' = <<>>
       /\ flowSelectedPath' = Null
       /\ flowEffects' = CleanedUp
       /\ flowCleanup' = 0
  ELSE /\ Len(flowEffects) < MaxEffects
       /\ flowEffects' =
            Append(CleanedUp,
                   [graph |-> g[1], base |-> base[1], cancelled |-> FALSE,
                    state |-> "pending", applied |-> FALSE])
       /\ flowCleanup' = Len(flowEffects) + 1
       /\ flowNodes' = ns /\ flowEdges' = es /\ flowSelectedPath' = sel

\* the first render of the component: empty state, then the effect; one
\* instance of the component is followed, the closures of an unmounted
\* instance hold the setters of that instance
FlowMount ==
  /\ JsIdle
  /\ ~flowMounted
  /\ flowEffects = <<>>
  /\ \E g \in GraphProps :
       LET base == Base(g, flowTheme)
       IN /\ flowGraph' = g
          /\ flowBase' = base
          /\ LayoutEffect(g, base, <<>>, <<>>, Null)
  /\ flowMounted' = TRUE
  /\ UNCHANGED <<inputVars, buildVars, pc, formVars, layoutVars, sessionVars, viewVars,
                 flowTheme>>

\* a render with another graph prop or another theme
FlowRender ==
  /\ JsIdle
  /\ flowMounted
  /\ \E g \in GraphProps, theme \in Themes :
       /\ <<g, theme>> # <<flowGraph, flowTheme>>
       /\ flowGraph' = g
       /\ flowTheme' = theme
       /\ flowBase' = Base(g, theme)
       /\ IF g = None /\ flowGraph = None
          THEN UNCHANGED <<flowNodes, flowEdges, flowSelectedPath,
                           flowEffects, flowCleanup>>
          ELSE LayoutEffect(g, Base(g, theme), flowNodes, flowEdges,
                            flowSelectedPath)
  /\ UNCHANGED <<inputVars, buildVars, pc, formVars, layoutVars, sessionVars, viewVars,
                 flowMounted>>

\* the component unmounts: only the cleanup runs
FlowUnmount ==
  /\ JsIdle
  /\ flowMounted
  /\ flowMounted' = FALSE
  /\ flowEffects' = CleanedUp
  /\ flowCleanup' = 0
  /\ UNCHANGED <<inputVars, buildVars, pc, formVars, layoutVars, sessionVars, viewVars,
                 flowGraph, flowTheme, flowBase, flowNodes, flowEdges, flowSelectedPath>>

\* .then((result) => {...}); the fitView it queues acts on the viewport of
\* the React Flow instance only
FlowResolve ==
  /\ JsIdle
  /\ \E e \in DOMAIN flowEffects :
       /\ flowEffects[e].state = "pending"
       /\ IF Cancelled(flowEffects[e])
          THEN /\ flowEffects' = [flowEffects EXCEPT ![e].state = "resolved"]
               /\ UNCHANGED <<flowNodes, flowEdges>>
          ELSE LET gr == flowEffects[e].graph.graph
                   base == flowEffects[e].base
                   result == elkLayout(elkNodes(gr), elkEdges(gr))
               IN /\ flowEffects' =
                       [flowEffects EXCEPT ![e].state = "resolved",
                                           ![e].applied = TRUE]
                  /\ flowNodes' = Positioned(base, result)
                  /\ flowEdges' = base.edges
  /\ UNCHANGED <<inputVars, buildVars, pc, formVars, layoutVars, sessionVars, viewVars,
                 flowMounted, flowGraph, flowTheme, flowBase,
                 flowSelectedPath, flowCleanup>>

\* .catch(() => {...})
FlowReject ==
  /\ JsIdle
  /\ \E e \in DOMAIN flowEffects :
       /\ flowEffects[e].state = "pending"
       /\ IF Cancelled(flowEffects[e])
          THEN /\ flowEffects' = [flowEffects EXCEPT ![e].state = "rejected"]
               /\ UNCHANGED <<flowNodes, flowEdges>>
          ELSE /\ flowEffects' =
                    [flowEffects EXCEPT ![e].state = "rejected",
                                        ![e].applied = TRUE]
               /\ flowNodes' = flowEffects[e].base.nodes
               /\ flowEdges' = flowEffects[e].base.edges
  /\ UNCHANGED <<inputVars, buildVars, pc, formVars, layoutVars, sessionVars, viewVars,
                 flowMounted, flowGraph, flowTheme, flowBase,
                 flowSelectedPath, flowCleanup>>

InitFlow ==
  /\ Init
  /\ root \in FlowValues
  /\ Options = InfiniteOptions

\* buildJsonGraph in the parent, then the renders and promises of the child
NextFlow ==
  \/ Start
  \/ Dequeue
  \/ ArrayChild
  \/ ArrayEnd
  \/ ObjectChild
  \/ ObjectEnd
  \/ Return
  \/ Rebuild
  \/ FlowMount
  \/ FlowRender
  \/ FlowUnmount
  \/ FlowResolve
  \/ FlowReject

SpecFlow == InitFlow /\ [][NextFlow]_vars

(***************************************************************************)
(* JsonCanvas: fit to bounds, wheel and button zoom, drag, click.          *)
(* Event coordinates are relative to the canvas.                           *)
(***************************************************************************)
\* the size changes, resets, wheel events, pointer presses and clicks on
\* the "-" button followed
MaxGestures == 2
\* the clicks on the "+" button followed: enough to zoom from 1 up to 3
MaxZooms == 8

\* the documents shown on the canvas: one card, two cards
ViewValues == {Num, ExNested}

\* the sizes useElementSize reports: not measured yet, narrower than the two
\* paddings, wider
ViewSizes == {<<0, 0>>, <<60, 600>>, <<400, 300>>}

\* where the pointer is for an event
ScreenPoints == {<<100, 60>>, <<102, 60>>, <<140, 90>>}
\* where the pointer is for a wheel event
WheelPoints == {<<140, 90>>}

\* const layout = useMemo(() => graph ? layoutJsonGraph(graph) : null)
LayoutProp ==
  IF pc = "laid" THEN Some([rects |-> rects, bounds |-> bounds]) ELSE None

\* the deps of fitToLayout
FitDeps == <<viewHeight, LayoutProp, viewWidth>>

\* const padding = 36
viewPadding == 36

\* a layout coordinate as a number of pixels
World(u) == Fl(u, LayoutUnit)

\* clamp(Math.min(scaleX, scaleY, 1), 0.2, 2)
FitScale_uncapped(scaleX, scaleY) ==
  clamp(RMin(scaleX, scaleY), Rat(1, 5), Whole(2))
FitScale(scaleX, scaleY) ==
  clamp(RMin(RMin(scaleX, scaleY), Whole(1)), Rat(1, 5), Whole(2))

WorldWidth == RMax(Whole(1), RSub(World(bounds.maxX), World(bounds.minX)))
WorldHeight == RMax(Whole(1), RSub(World(bounds.maxY), World(bounds.minY)))
ScaleX == RDiv(Whole(viewWidth - viewPadding * 2), WorldWidth)
ScaleY == RDiv(Whole(viewHeight - viewPadding * 2), WorldHeight)

\* fitToLayout returns early without a layout or without a size
CanFit == LayoutProp # None /\ viewWidth > 0 /\ viewHeight > 0

\* the view fitToLayout sets
FitView ==
  LET nextScale == FitScale(ScaleX, ScaleY)
  IN [offsetX |-> RSub(Whole(viewPadding), RMul(World(bounds.minX), nextScale)),
      offsetY |-> RSub(Whole(viewPadding), RMul(World(bounds.minY), nextScale)),
      scale |-> nextScale]

\* fitToLayout()
fitToLayout ==
  IF CanFit
  THEN /\ view' = FitView
       /\ selectedId' = Null
       /\ viewOp' = "fitToLayout"
  ELSE UNCHANGED <<view, selectedId, viewOp>>

\* the handlers run between renders, after the effects of the last render
ViewIdle == pc \in {"start", "laid"}
ViewReady == pc = "laid" /\ fitDeps = FitDeps

\* useElementSize reports another size
Resize ==
  /\ ViewIdle
  /\ gestures < MaxGestures
  /\ \E size \in ViewSizes :
       /\ size # <<viewWidth, viewHeight>>
       /\ viewWidth' = size[1]
       /\ viewHeight' = size[2]
  /\ gestures' = gestures + 1
  /\ UNCHANGED <<inputVars, buildVars, pc, formVars, layoutVars, sessionVars, flowVars,
                 view, selectedId, dragRef, fitDeps, zooms, viewOp>>

\* useEffect(() => { fitToLayout() }, [fitToLayout]): runs after a render
\* in which height, layout or width changed
FitEffect ==
  /\ ViewIdle
  /\ fitDeps # FitDeps
  /\ fitDeps' = FitDeps
  /\ fitToLayout
  /\ UNCHANGED <<inputVars, buildVars, pc, formVars, layoutVars, sessionVars, flowVars,
                 viewWidth, viewHeight, dragRef, gestures, zooms>>

\* handleReset
HandleReset ==
  /\ ViewReady
  /\ gestures < MaxGestures
  /\ gestures' = gestures + 1
  /\ fitToLayout
  /\ UNCHANGED <<inputVars, buildVars, pc, formVars, layoutVars, sessionVars, flowVars,
                 viewWidth, viewHeight, dragRef, fitDeps, zooms>>

\* handleWheel: zoom about the pointer
HandleWheel ==
  /\ ViewReady
  /\ gestures < MaxGestures
  /\ gestures' = gestures + 1
  /\ \E point \in WheelPoints, zoom \in {Rat(28, 25), Rat(9, 10)} :
       LET screenX == Whole(point[1])
           screenY == Whole(point[2])
           worldX == RDiv(RSub(screenX, view.offsetX), view.scale)
           worldY == RDiv(RSub(screenY, view.offsetY), view.scale)
           nextScale == clamp(RMul(view.scale, zoom), Rat(1, 5), Whole(3))
       IN view' = [scale |-> nextScale,
                   offsetX |-> RSub(screenX, RMul(worldX, nextScale)),
                   offsetY |-> RSub(screenY, RMul(worldY, nextScale))]
  /\ viewOp' = "handleWheel"
  /\ UNCHANGED <<inputVars, buildVars, pc, formVars, layoutVars, sessionVars, flowVars,
                 viewWidth, viewHeight, selectedId, dragRef, fitDeps, zooms>>

\* the "+" button: clamp(prev.scale * 1.15, 0.2, 3)
ZoomIn ==
  /\ ViewReady
  /\ zooms < MaxZooms
  /\ zooms' = zooms + 1
  /\ view' = [view EXCEPT
                !.scale = clamp(RMul(view.scale, Rat(23, 20)), Rat(1, 5),
                                Whole(3))]
  /\ viewOp' = "zoomIn"
  /\ UNCHANGED <<inputVars, buildVars, pc, formVars, layoutVars, sessionVars, flowVars,
                 viewWidth, viewHeight, selectedId, dragRef, fitDeps,
                 gestures>>

\* the "-" button: clamp(prev.scale / 1.15, 0.2, 3)
ZoomOut ==
  /\ ViewReady
  /\ gestures < MaxGestures
  /\ gestures' = gestures + 1
  /\ view' = [view EXCEPT
                !.scale = clamp(RDiv(view.scale, Rat(23, 20)), Rat(1, 5),
                                Whole(3))]
  /\ viewOp' = "zoomOut"
  /\ UNCHANGED <<inputVars, buildVars, pc, formVars, layoutVars, sessionVars, flowVars,
                 viewWidth, viewHeight, selectedId, dragRef, fitDeps,
                 zooms>>

\* handlePointerDown with the primary button
HandlePointerDown ==
  /\ ViewReady
  /\ gestures < MaxGestures
  /\ gestures' = gestures + 1
  /\ dragRef = None
  /\ \E point \in ScreenPoints :
       dragRef' = Some([pointerId |-> 1, startX |-> point[1],
                        startY |-> point[2], startOffsetX |-> view.offsetX,
                        startOffsetY |-> view.offsetY, moved |-> FALSE])
  /\ UNCHANGED <<inputVars, buildVars, pc, formVars, layoutVars, sessionVars, flowVars,
                 viewWidth, viewHeight, view, selectedId, fitDeps, zooms,
                 viewOp>>

\* handlePointerMove of the captured pointer
HandlePointerMove ==
  /\ ViewIdle
  /\ fitDeps = FitDeps
  /\ dragRef # None
  /\ \E point \in ScreenPoints :
       LET drag == dragRef[1]
           dx == point[1] - drag.startX
           dy == point[2] - drag.startY
       IN /\ dragRef' =
               Some([drag EXCEPT
                       !.moved = IF Abs(dx) + Abs(dy) > 3 THEN TRUE ELSE @])
          /\ view' = [view EXCEPT
                        !.offsetX = RAdd(drag.startOffsetX, Whole(dx)),
                        !.offsetY = RAdd(drag.startOffsetY, Whole(dy))]
  /\ viewOp' = "handlePointerMove"
  /\ UNCHANGED <<inputVars, buildVars, pc, formVars, layoutVars, sessionVars, flowVars,
                 viewWidth, viewHeight, selectedId, fitDeps, gestures, zooms>>

\* hitTest: the first rectangle, in insertion order, that holds the point
hitTest(worldX, worldY) ==
  LET Hit(k) ==
        /\ RLe(World(rects[k].x), worldX)
        /\ RLe(worldX, World(rects[k].x + rects[k].w))
        /\ RLe(World(rects[k].y), worldY)
        /\ RLe(worldY, World(rects[k].y + rects[k].h))
  IN IF LayoutProp # None /\ \E k \in DOMAIN rects : Hit(k)
     THEN rects[CHOOSE k \in DOMAIN rects :
                  Hit(k) /\ \A j \in 1..(k - 1) : ~Hit(j)].id
     ELSE Null

\* handlePointerUp: a press that did not move is a click
HandlePointerUp ==
  /\ ViewIdle
  /\ fitDeps = FitDeps
  /\ dragRef # None
  /\ dragRef' = None
  /\ \E point \in ScreenPoints :
       IF ~dragRef[1].moved
       THEN LET worldX == RDiv(RSub(Whole(point[1]), view.offsetX), view.scale)
                worldY == RDiv(RSub(Whole(point[2]), view.offsetY), view.scale)
            IN selectedId' = hitTest(worldX, worldY)
       ELSE UNCHANGED selectedId
  /\ UNCHANGED <<inputVars, buildVars, pc, formVars, layoutVars, sessionVars, flowVars,
                 viewWidth, viewHeight, view, fitDeps, gestures, zooms,
                 viewOp>>

InitView ==
  /\ Init
  /\ root \in ViewValues
  /\ Options = InfiniteOptions

\* buildJsonGraph of a document of arrays and scalars, its layout, then the
\* events of the canvas
NextView ==
  \/ Start
  \/ Dequeue
  \/ ArrayChild
  \/ ArrayEnd
  \/ Return
  \/ Layout
  \/ Resize
  \/ FitEffect
  \/ HandleReset
  \/ HandleWheel
  \/ ZoomIn
  \/ ZoomOut
  \/ HandlePointerDown
  \/ HandlePointerMove
  \/ HandlePointerUp

SpecView == InitView /\ [][NextView]_vars

(***************************************************************************)
(* JsonFormatter: the handlers that write parsedValue.  A parsed value is  *)
(* identified by the text it was parsed from.  Of the output only whether  *)
(* it is empty is kept; the flash message and the timing, which no handler *)
(* reads, are left out.                                                    *)
(***************************************************************************)
MaxPending == 1

\* the texts typed, pasted or loaded: empty, blank, a JSON array, a
\* truncated document, the escaped form [\"a\"] of ["a"], and a lone quote
Texts == {"", " ", "[1]", "{", "[\\\"a\\\"]", "\""}

\* text.trim(): of the texts used only the blank one has outer whitespace
Trim(text) == IF text = " " THEN "" ELSE text

\* text.replace(/^\\uFEFF/, "").trim(): none of the texts starts with the
\* six characters the pattern matches
normalizeJsonText(text) == Trim(text)

\* JSON.parse(text): the value, or None where it throws
JsonParse(text) == IF text \in {"[1]", "[\"a\"]"} THEN Some(text) ELSE None

\* JSON.parse(`"${text}"`): the string the text is the escaped form of, or
\* None where it throws (an unescaped quote ends the literal early)
unescapeJsonString(text) ==
  IF text = "\"" THEN None
  ELSE IF text = "[\\\"a\\\"]" THEN Some("[\"a\"]")
  ELSE Some(text)

\* parseOrThrow: None where it throws
parseOrThrow ==
  IF normalizeJsonText(input) = "" THEN None
  ELSE JsonParse(normalizeJsonText(input))

\* setParsedValue(undefined) in the catch branch of a failed parse
ParseFailed_kept == parsedValue
ParseFailed == None

\* disabled={!input.trim()} on the format, minify, escape, unescape and
\* validate buttons; disabled={!input && !output} on the clear button
CanRun == Trim(input) # ""
CanClear == input # "" \/ hasOutput

\* a completed operation and how it ended
Op(o, ok) == Some([op |-> o, ok |-> ok])

Completed(op) ==
  /\ lastOp' = op
  /\ lastActing' = op

\* MonacoJsonEditor onChange
EditInput ==
  /\ \E next \in Texts : input' = next
  /\ parsedValue' = None
  /\ hasError' = FALSE
  /\ outputKind' = Null
  /\ Completed(Op("edit", TRUE))
  /\ UNCHANGED <<hasOutput, pastePending, filePending>>
  /\ UNCHANGED <<inputVars, buildVars, pc, layoutVars, sessionVars, flowVars,
                 viewVars>>

HandleFormatOrMinify ==
  /\ CanRun
  /\ \E kind \in {"formatted", "minified"} :
       IF parseOrThrow # None
       THEN /\ hasOutput' = TRUE
            /\ outputKind' = kind
            /\ parsedValue' = parseOrThrow
            /\ hasError' = FALSE
            /\ Completed(Op(kind, TRUE))
       ELSE /\ hasOutput' = FALSE
            /\ outputKind' = Null
            /\ parsedValue' = ParseFailed
            /\ hasError' = TRUE
            /\ Completed(Op(kind, FALSE))
  /\ UNCHANGED <<input, pastePending, filePending>>
  /\ UNCHANGED <<inputVars, buildVars, pc, layoutVars, sessionVars, flowVars,
                 viewVars>>

HandleEscape ==
  /\ CanRun
  /\ IF Trim(input) # ""
     THEN /\ hasOutput' = TRUE
          /\ outputKind' = "escaped"
          /\ hasError' = FALSE
          /\ Completed(Op("escape", TRUE))
     ELSE /\ hasOutput' = FALSE
          /\ outputKind' = Null
          /\ hasError' = TRUE
          /\ Completed(Op("escape", FALSE))
  /\ parsedValue' = None
  /\ UNCHANGED <<input, pastePending, filePending>>
  /\ UNCHANGED <<inputVars, buildVars, pc, layoutVars, sessionVars, flowVars,
                 viewVars>>

HandleUnescape ==
  /\ CanRun
  /\ IF Trim(input) # "" /\ unescapeJsonString(input) # None
     THEN LET unescaped == unescapeJsonString(input)[1]
              nextParsed == JsonParse(normalizeJsonText(unescaped))
          IN /\ hasOutput' = TRUE
             /\ outputKind' = "unescaped"
             /\ parsedValue' = nextParsed
             /\ hasError' = FALSE
             /\ Completed(Op("unescape", nextParsed # None))
     ELSE /\ hasOutput' = FALSE
          /\ outputKind' = Null
          /\ parsedValue' = None
          /\ hasError' = TRUE
          /\ Completed(Op("unescape", FALSE))
  /\ UNCHANGED <<input, pastePending, filePending>>
  /\ UNCHANGED <<inputVars, buildVars, pc, layoutVars, sessionVars, flowVars,
                 viewVars>>

HandleValidate ==
  /\ CanRun
  /\ IF parseOrThrow # None
     THEN /\ outputKind' = Null
          /\ parsedValue' = parseOrThrow
          /\ hasError' = FALSE
          /\ Completed(Op("validate", TRUE))
     ELSE /\ outputKind' = outputKind
          /\ parsedValue' = ParseFailed
          /\ hasError' = TRUE
          /\ Completed(Op("validate", FALSE))
  /\ UNCHANGED <<input, hasOutput, pastePending, filePending>>
  /\ UNCHANGED <<inputVars, buildVars, pc, layoutVars, sessionVars, flowVars,
                 viewVars>>

HandleClear ==
  /\ CanClear
  /\ input' = ""
  /\ hasOutput' = FALSE
  /\ outputKind' = Null
  /\ hasError' = FALSE
  /\ parsedValue' = None
  /\ Completed(Op("clear", TRUE))
  /\ UNCHANGED <<pastePending, filePending>>
  /\ UNCHANGED <<inputVars, buildVars, pc, layoutVars, sessionVars, flowVars,
                 viewVars>>

\* handlePasteFromClipboard up to its await: without a readable clipboard it
\* reports the error and returns
HandlePasteFromClipboard ==
  /\ \E readable \in BOOLEAN :
       IF readable
       THEN /\ pastePending < MaxPending
            /\ pastePending' = pastePending + 1
            /\ hasError' = FALSE
            /\ UNCHANGED <<lastOp, lastActing>>
       ELSE /\ hasError' = TRUE
            /\ lastOp' = Op("paste", FALSE)
            /\ UNCHANGED <<pastePending, lastActing>>
  /\ UNCHANGED <<input, parsedValue, hasOutput, outputKind, filePending>>
  /\ UNCHANGED <<inputVars, buildVars, pc, layoutVars, sessionVars, flowVars,
                 viewVars>>

\* the rest of handlePasteFromClipboard, once readText() has settled
PasteSettle ==
  /\ pastePending > 0
  /\ pastePending' = pastePending - 1
  /\ \/ /\ \E text \in Texts : input' = text
        /\ hasOutput' = FALSE
        /\ outputKind' = Null
        /\ parsedValue' = None
        /\ Completed(Op("paste", TRUE))
        /\ UNCHANGED hasError
     \/ /\ hasError' = TRUE
        /\ lastOp' = Op("paste", FALSE)
        /\ UNCHANGED <<input, hasOutput, outputKind, parsedValue,
                       lastActing>>
  /\ UNCHANGED filePending
  /\ UNCHANGED <<inputVars, buildVars, pc, layoutVars, sessionVars, flowVars,
                 viewVars>>

\* handleFileChange with a file chosen, up to its await (with no file it
\* returns at once and changes nothing)
HandleFileChange ==
  /\ filePending < MaxPending
  /\ filePending' = filePending + 1
  /\ hasError' = FALSE
  /\ UNCHANGED <<input, parsedValue, hasOutput, outputKind, pastePending,
                 lastOp, lastActing>>
  /\ UNCHANGED <<inputVars, buildVars, pc, layoutVars, sessionVars, flowVars,
                 viewVars>>

\* the rest of handleFileChange, once file.text() has settled
FileSettle ==
  /\ filePending > 0
  /\ filePending' = filePending - 1
  /\ \/ /\ \E text \in Texts : input' = text
        /\ hasOutput' = FALSE
        /\ outputKind' = Null
        /\ parsedValue' = None
        /\ Completed(Op("load", TRUE))
        /\ UNCHANGED hasError
     \/ /\ hasError' = TRUE
        /\ lastOp' = Op("load", FALSE)
        /\ UNCHANGED <<input, hasOutput, outputKind, parsedValue,
                       lastActing>>
  /\ UNCHANGED pastePending
  /\ UNCHANGED <<inputVars, buildVars, pc, layoutVars, sessionVars, flowVars,
                 viewVars>>

InitFormatter ==
  /\ Init
  /\ root = Num
  /\ maxDepth = Infinity /\ maxNodes = Infinity
  /\ maxChildrenPerNode = Infinity

NextFormatter ==
  \/ EditInput
  \/ HandleFormatOrMinify
  \/ HandleEscape
  \/ HandleUnescape
  \/ HandleValidate
  \/ HandleClear
  \/ HandlePasteFromClipboard
  \/ PasteSettle
  \/ HandleFileChange
  \/ FileSettle

SpecFormatter == InitFormatter /\ [][NextFormatter]_vars

(***************************************************************************)
(* Properties of the returned graph and of its layout.                     *)
(***************************************************************************)
Returned == pc \in {"returned", "laid"}

AllInfinite ==
  maxDepth = Infinity /\ maxNodes = Infinity /\ maxChildrenPerNode = Infinity

\* the number of edges of the graph that lead to the node id
InDegree(id) == Cardinality({ e \in DOMAIN edges : edges[e].to = id })

\* C1: in the returned graph every node other than the root is the `to` of
\* exactly one edge and the root is the `to` of no edge
C1_Tree ==
  Returned =>
    /\ HasNode(rootId)
    /\ \A k \in DOMAIN nodes :
         InDegree(nodes[k].id) = IF nodes[k].id = rootId THEN 0 ELSE 1
    /\ \A e \in DOMAIN edges : HasNode(edges[e].to) /\ HasNode(edges[e].from)

\* a returned graph with a node that has two children, one of them a parent
C1_Witness ==
  /\ Returned
  /\ Len(nodes) >= 3
  /\ \E e \in DOMAIN edges : edges[e].from # rootId

\* C2: for every edge e of the returned graph, 0 <= e.fromRow < rows.length
\* of the node whose id is e.from
C2_FromRowInRange ==
  Returned =>
    \A e \in DOMAIN edges :
      /\ HasNode(edges[e].from)
      /\ 0 <= edges[e].fromRow
      /\ edges[e].fromRow < Len(NodeById(edges[e].from).rows)

\* an edge leaves the last row of its parent, which has other rows before it
C2_Witness ==
  /\ Returned
  /\ \E e \in DOMAIN edges :
       /\ edges[e].fromRow >= 1
       /\ edges[e].fromRow = Len(NodeById(edges[e].from).rows) - 1

\* the interiors of two rectangles meet
Overlap(a, b) ==
  /\ a.x < b.x + b.w /\ b.x < a.x + a.w
  /\ a.y < b.y + b.h /\ b.y < a.y + a.h

\* C3: the rectangles layoutJsonGraph assigns to two distinct nodes of a
\* built graph do not overlap
C3_NoOverlap ==
  pc = "laid" =>
    \A a, b \in DOMAIN rects : a # b => ~Overlap(rects[a], rects[b])

\* C4, as stated: the returned graph has nodes.length <= maxNodes, and once
\* nodes.length has reached maxNodes no later child is expanded into a node
C4_Original ==
  /\ [](Returned => Len(nodes) <= maxNodes)
  /\ [][(pc # "start" /\ Len(nodes) >= maxNodes) => Len(nodes') = Len(nodes)]_vars

\* C4, amended: nodes.length <= max(1, maxNodes) at every moment (the root is
\* created whatever maxNodes is), and once nodes.length >= maxNodes no step
\* of the traversal creates a node
C4_NodeCeiling ==
  /\ [](Len(nodes) <= Max(1, maxNodes))
  /\ [][(pc # "start" /\ Len(nodes) >= maxNodes) => Len(nodes') = Len(nodes)]_vars

\* the ceiling was reached and a container was left out because of it
C4_Witness ==
  /\ Returned
  /\ maxNodes = 2
  /\ Len(nodes) = maxNodes
  /\ truncatedBy.nodes

(***************************************************************************)
(* The value behind a row.  Nodes and queue items are pushed together, so  *)
(* queue[k] is the item of nodes[k].                                       *)
(***************************************************************************)
IsContainerType(value) == value.type \in {"array", "object"}

\* the rows of nodes[k] that stand for a child (all but the "more" row)
RealRows(k) == { j \in DOMAIN nodes[k].rows : nodes[k].rows[j].key # MoreKey }

\* the child the real row j of nodes[k] stands for
RowChild(k, j) ==
  IF queue[k].value.type = "array" THEN queue[k].value.items[j]
  ELSE Member(queue[k].value, nodes[k].rows[j].key)

\* the index in nodes of the node id
IndexOf(id) == CHOOSE k \in DOMAIN nodes : nodes[k].id = id

\* nodes.length at the moment row j of nodes[k] was visited: the root and
\* one node per edge recorded before that moment (parents are expanded in
\* the order of nodes, their rows in row order)
NodesAtVisit(k, j) ==
  1 + Cardinality({ e \in DOMAIN edges :
                      \/ IndexOf(edges[e].from) < k
                      \/ IndexOf(edges[e].from) = k /\ edges[e].fromRow < j - 1 })

\* the child being visited by the next step of the array or object loop
VisitedChild ==
  IF pc = "array" THEN Current.value.items[i + 1]
  ELSE Member(Current.value, OwnKeys(Current.value)[keyPos + 1])

\* a step that visits a child: it appends the row of that child
VisitStep == Len(rows') = Len(rows) + 1

\* C5: a visited child receives a childId, a node and an edge if and only if
\* it is an array or object, the depth of the node being expanded is below
\* maxDepth and nodes.length at that moment is below maxNodes; otherwise its
\* row has no childId and no node or edge is created
C5_ExpansionRule ==
  /\ [][VisitStep =>
          LET child == VisitedChild
              expand == /\ IsContainerType(child)
                        /\ Current.depth < maxDepth
                        /\ Len(nodes) < maxNodes
              row == rows'[Len(rows')]
          IN IF expand
             THEN /\ Len(nodes') = Len(nodes) + 1
                  /\ Len(edges') = Len(edges) + 1
                  /\ row.childId = nodes'[Len(nodes')].id
                  /\ row.childId # Undefined
                  /\ edges'[Len(edges')].to = row.childId
                  /\ edges'[Len(edges')].from = Current.id
             ELSE /\ nodes' = nodes
                  /\ edges' = edges
                  /\ row.childId = Undefined]_vars
  /\ [][(~VisitStep /\ pc # "start") =>
          (Len(nodes') = Len(nodes) /\ edges' = edges)]_vars

\* a graph in which one container was expanded and others were held back,
\* some by the depth gate and some by the node-count gate
C5_Witness ==
  /\ Returned
  /\ Len(edges) >= 1
  /\ truncatedBy.depth
  /\ truncatedBy.nodes

\* the real rows of the returned graph whose child is a container that was
\* not expanded
SkippedRows ==
  { s \in UNION { { <<k, j>> : j \in RealRows(k) } : k \in DOMAIN nodes } :
      /\ IsContainerType(RowChild(s[1], s[2]))
      /\ nodes[s[1]].rows[s[2]].childId = Undefined }

\* C6, as stated: a container child not expanded while depth >= maxDepth
\* gives truncatedBy.depth, and one not expanded while nodes.length >=
\* maxNodes gives truncatedBy.nodes, also when both gates fail for it
C6_Original ==
  Returned =>
    \A s \in SkippedRows :
      /\ nodes[s[1]].depth >= maxDepth => truncatedBy.depth
      /\ NodesAtVisit(s[1], s[2]) >= maxNodes => truncatedBy.nodes

\* C6, amended: the depth gate is tested first.  A container child not
\* expanded while depth >= maxDepth gives truncatedBy.depth; one not
\* expanded while depth < maxDepth and nodes.length >= maxNodes gives
\* truncatedBy.nodes; a flag is true only if some child failed its gate
C6_GateFlags ==
  Returned =>
    /\ \A s \in SkippedRows :
         /\ nodes[s[1]].depth >= maxDepth => truncatedBy.depth
         /\ (nodes[s[1]].depth < maxDepth /\
             NodesAtVisit(s[1], s[2]) >= maxNodes) => truncatedBy.nodes
    /\ truncatedBy.depth =>
         \E s \in SkippedRows : nodes[s[1]].depth >= maxDepth
    /\ truncatedBy.nodes =>
         \E s \in SkippedRows : /\ nodes[s[1]].depth < maxDepth
                                /\ NodesAtVisit(s[1], s[2]) >= maxNodes

\* both flags are set in one graph: one child stopped by the node count,
\* another by the depth
C6_Witness ==
  /\ Returned
  /\ truncatedBy.depth /\ truncatedBy.nodes
  /\ \E s \in SkippedRows : nodes[s[1]].depth >= maxDepth
  /\ \E s \in SkippedRows : /\ nodes[s[1]].depth < maxDepth
                            /\ NodesAtVisit(s[1], s[2]) >= maxNodes

\* the number of container occurrences (arrays and objects) in a value
RECURSIVE ContainerCount(_), ContainerCountAll(_)
ContainerCountAll(values) ==
  IF Len(values) = 0 THEN 0
  ELSE ContainerCount(Head(values)) + ContainerCountAll(Tail(values))
ContainerCount(value) ==
  (IF IsContainerType(value) THEN 1 ELSE 0) + ContainerCountAll(value.items)

\* the graph shows all of root: a node for the root and for every container
\* occurrence, and in every node one row per child of its value, none of them
\* the "more" row, with a childId exactly on the rows of container children
Complete ==
  /\ Len(nodes) = Max(1, ContainerCount(root))
  /\ Len(queue) = Len(nodes)
  /\ Len(edges) = Len(nodes) - 1
  /\ \A k \in DOMAIN nodes :
       /\ queue[k].id = nodes[k].id
       /\ Len(nodes[k].rows) = Len(queue[k].value.items)
       /\ RealRows(k) = DOMAIN nodes[k].rows
       /\ \A j \in DOMAIN nodes[k].rows :
            IsContainerType(RowChild(k, j)) <=>
              nodes[k].rows[j].childId # Undefined

AnyFlag == truncatedBy.depth \/ truncatedBy.nodes \/ truncatedBy.children

\* C7: no truncation is silent: a returned graph that is not the complete one
\* has truncated = true and at least one truncatedBy flag true, so that
\* truncated = false implies the graph is the complete one
C7_NoSilentTruncation ==
  Returned =>
    /\ ~Complete => (truncated /\ AnyFlag)
    /\ ~truncated => Complete

\* finite limits that the input stays within: a complete graph with a nested
\* node, and no flag
C7_Witness ==
  /\ Returned
  /\ ~truncated
  /\ maxDepth # Infinity /\ maxNodes # Infinity
  /\ maxChildrenPerNode # Infinity
  /\ Len(edges) >= 1
  /\ Complete

\* C8: with the three limits infinite, truncated and all truncatedBy flags
\* are false and the number of nodes of type object or array equals the
\* number of container occurrences in the value
C8_Unlimited ==
  (Returned /\ AllInfinite) =>
    /\ ~truncated
    /\ ~AnyFlag
    /\ Cardinality({ k \in DOMAIN nodes : nodes[k].type \in {"object", "array"} })
         = ContainerCount(root)

\* an unlimited build of a value with an object inside an array or object
C8_Witness ==
  /\ Returned /\ AllInfinite
  /\ Len(nodes) >= 3
  /\ \E k \in DOMAIN nodes : nodes[k].type = "object" /\ nodes[k].depth >= 1

\* the position of a key in the creation order of the keys of an object
KeyPosition(value, key) ==
  CHOOSE p \in DOMAIN value.keys : value.keys[p] = key

\* key a is enumerated before key b: canonical array indices first, in
\* ascending numeric order, then the other keys in creation order
EnumeratedBefore(value, a, b) ==
  IF IsIntegerKey(a) /\ IsIntegerKey(b)
    THEN IntegerKeyValue[a] < IntegerKeyValue[b]
  ELSE IF IsIntegerKey(a) THEN TRUE
  ELSE IF IsIntegerKey(b) THEN FALSE
  ELSE KeyPosition(value, a) < KeyPosition(value, b)

\* the count of rows of an expanded container and its "more" row
RowCountRule(k) ==
  LET n == Len(queue[k].value.items)
      m == maxChildrenPerNode
      rs == nodes[k].rows
  IN /\ Len(rs) = Min(n, m) + (IF n > m THEN 1 ELSE 0)
     /\ RealRows(k) = 1..Min(n, m)
     /\ n > m => /\ rs[Len(rs)].key = MoreKey
                 /\ rs[Len(rs)].childId = Undefined
                 /\ truncatedBy.children
     /\ \A j \in RealRows(k) : rs[j].value = jsonPreview(RowChild(k, j))

FiveKeysExample ==
  (root = ExFiveKeys /\ maxChildrenPerNode = 2) =>
    (Len(nodes[1].rows) = 3 /\ truncatedBy.children)

DepthCut ==
  \A k \in DOMAIN nodes :
    nodes[k].depth = maxDepth =>
      \A j \in RealRows(k) :
        IsContainerType(RowChild(k, j)) =>
          (nodes[k].rows[j].childId = Undefined /\ truncatedBy.depth)

ChainExample ==
  (root = ExChain /\ maxDepth = 1 /\ maxNodes >= 2 /\ maxChildrenPerNode >= 1)
    => /\ Len(nodes) = 2
       /\ nodes[2].label = "a"
       /\ Len(nodes[2].rows) = 1
       /\ nodes[2].rows[1].key = "b"
       /\ nodes[2].rows[1].childId = Undefined
       /\ truncatedBy.depth

\* C10: every node has depth <= maxDepth, a container child in a visited
\* slot of a node at depth maxDepth gets a row without childId and makes
\* truncatedBy.depth true; maxDepth = 1 on {"a": {"b": {"c": 1}}} yields
\* 2 nodes, row "b" without childId and truncatedBy.depth
C10_DepthLimit ==
  Returned =>
    /\ \A k \in DOMAIN nodes : nodes[k].depth <= maxDepth
    /\ DepthCut
    /\ ChainExample

\* the example of the claim, built
C10_Witness ==
  /\ Returned
  /\ root = ExChain /\ maxDepth = 1 /\ maxNodes = Infinity
  /\ maxChildrenPerNode = Infinity
  /\ Len(nodes) = 2
  /\ truncatedBy.depth

\* the children of a container that the array or object loop visits: the
\* first maxChildrenPerNode of them in enumeration order
VisitedChildren(value) ==
  IF value.type = "array"
  THEN { value.items[j] : j \in 1..Min(Len(value.items), maxChildrenPerNode) }
  ELSE LET allKeys == { value.keys[p] : p \in DOMAIN value.keys }
       IN { Member(value, k) :
              k \in { a \in allKeys :
                        Cardinality({ b \in allKeys :
                                        EnumeratedBefore(value, b, a) })
                          < maxChildrenPerNode } }

HasNestedContainer(value) ==
  /\ IsContainerType(value)
  /\ \E p \in DOMAIN value.items : IsContainerType(value.items[p])

\* C11, as stated: given maxNodes = 1 and a root container with a nested
\* container, whatever maxDepth and maxChildrenPerNode are, the graph has
\* exactly 1 node, zero edges and truncatedBy.nodes = true
C11_Original ==
  (Returned /\ maxNodes = 1 /\ HasNestedContainer(root)) =>
    (Len(nodes) = 1 /\ Len(edges) = 0 /\ truncatedBy.nodes)

\* C11, amended: given maxNodes = 1 the graph has exactly 1 node and zero
\* edges; truncatedBy.nodes is true exactly when maxDepth >= 1 and a nested
\* container is among the first maxChildrenPerNode children of the root
C11_OneNode ==
  (Returned /\ maxNodes = 1) =>
    /\ Len(nodes) = 1
    /\ Len(edges) = 0
    /\ truncatedBy.nodes <=>
         /\ IsContainerType(root)
         /\ maxDepth >= 1
         /\ \E c \in VisitedChildren(root) : IsContainerType(c)

\* maxNodes = 1 stopped a nested container the depth gate let through
C11_Witness ==
  /\ Returned
  /\ maxNodes = 1 /\ maxDepth >= 1 /\ maxChildrenPerNode >= 1
  /\ HasNestedContainer(root)
  /\ Len(nodes) = 1
  /\ truncatedBy.nodes

\* C13: nodes[i].id is "n" followed by i, ids are pairwise distinct, depths
\* are non-decreasing along nodes, and for every edge the parent comes
\* before the child in nodes, the child being one level deeper
C13_DiscoveryOrder ==
  Returned =>
    /\ \A k \in DOMAIN nodes : nodes[k].id = "n" \o ToString(k - 1)
    /\ \A k1, k2 \in DOMAIN nodes :
         /\ k1 # k2 => nodes[k1].id # nodes[k2].id
         /\ k1 < k2 => nodes[k1].depth <= nodes[k2].depth
    /\ \A e \in DOMAIN edges :
         /\ HasNode(edges[e].from) /\ HasNode(edges[e].to)
         /\ IndexOf(edges[e].from) < IndexOf(edges[e].to)
         /\ NodeById(edges[e].to).depth = NodeById(edges[e].from).depth + 1

\* a graph with nodes at three depths and two nodes at one depth
C13_Witness ==
  /\ Returned
  /\ \E k \in DOMAIN nodes : nodes[k].depth = 2
  /\ \E k1, k2 \in DOMAIN nodes : k1 # k2 /\ nodes[k1].depth = nodes[k2].depth

\* C15: a root node is always created, whatever the type of the root and
\* the limits; a root that is a bare scalar gives exactly one node with
\* empty rows, zero edges and truncated = false
C15_RootAlways ==
  Returned =>
    /\ Len(nodes) >= 1
    /\ nodes[1].id = rootId
    /\ nodes[1].path = "$" /\ nodes[1].depth = 0
    /\ nodes[1].type = root.type
    /\ ~IsContainerType(root) =>
         /\ Len(nodes) = 1
         /\ nodes[1].rows = <<>>
         /\ edges = <<>>
         /\ ~truncated /\ ~AnyFlag

\* a scalar document built with every limit at 0
C15_Witness ==
  /\ Returned
  /\ root \in RootScalars
  /\ maxDepth = 0 /\ maxNodes = 0 /\ maxChildrenPerNode = 0
  /\ Len(nodes) = 1

\* the nodes of the graph without an outgoing edge
Leaves == { k \in DOMAIN nodes : \A e \in DOMAIN edges : edges[e].from # nodes[k].id }

ParentOf(id) == edges[CHOOSE e \in DOMAIN edges : edges[e].to = id].from

\* C16: two leaf nodes, sharing a parent or not, get rectangles whose
\* vertical intervals [y, y+h) are disjoint: each leaf is placed at the
\* shared cursor, which only increases
C16_LeavesDisjoint ==
  pc = "laid" =>
    \A a, b \in Leaves :
      a # b =>
        LET ra == RectOf(rects, nodes[a].id)
            rb == RectOf(rects, nodes[b].id)
        IN ra.y + ra.h <= rb.y \/ rb.y + rb.h <= ra.y

\* two leaves with the same parent have been placed
C16_Witness ==
  /\ pc = "laid"
  /\ \E a, b \in Leaves :
       /\ a # b
       /\ nodes[a].id # rootId /\ nodes[b].id # rootId
       /\ ParentOf(nodes[a].id) = ParentOf(nodes[b].id)

\* the earlier calls that had the arguments of the current one
SameCalls ==
  { c \in DOMAIN returnedGraphs :
      returnedGraphs[c].root = root /\ returnedGraphs[c].options = Options }

\* C12: two calls with the same value and the same limits return the same
\* nodes in the same order, the same edges and the same truncation flags,
\* ids being allocated in the same order with the root always n0
C12_Deterministic ==
  Returned =>
    /\ rootId = "n0"
    /\ \A c \in DOMAIN returnedGraphs : returnedGraphs[c].graph.rootId = "n0"
    /\ \A c \in SameCalls : returnedGraphs[c].graph = Result

\* a second call with the arguments of the first has returned a graph of
\* several nodes
C12_Witness ==
  /\ Returned
  /\ SameCalls # {}
  /\ Len(nodes) >= 3

NodeIds(ns) == { ns[k].id : k \in DOMAIN ns }

\* C14, as stated: an id that appears in one returned graph is not the id of
\* a node in a graph returned by a later call
C14_Original ==
  Returned =>
    \A c \in DOMAIN returnedGraphs :
      NodeIds(returnedGraphs[c].graph.nodes) \cap NodeIds(nodes) = {}

\* C14, amended: ids are unique within one graph only.  Every call numbers
\* its nodes from n0, so the ids of a graph of k nodes are n0..n(k-1) and a
\* later call gives the same ids to its first nodes
C14_IdsPerGraph ==
  Returned =>
    /\ Cardinality(NodeIds(nodes)) = Len(nodes)
    /\ NodeIds(nodes) = { "n" \o ToString(k - 1) : k \in DOMAIN nodes }
    /\ \A c \in DOMAIN returnedGraphs :
         LET old == returnedGraphs[c].graph.nodes
         IN \A k \in DOMAIN old \cap DOMAIN nodes : old[k].id = nodes[k].id

\* a later call on another document has returned, both graphs having
\* several nodes
C14_Witness ==
  /\ Returned
  /\ \E c \in DOMAIN returnedGraphs :
       /\ returnedGraphs[c].root # root
       /\ Len(returnedGraphs[c].graph.nodes) >= 2
  /\ Len(nodes) >= 2

Stale(e) ==
  \/ ~flowMounted
  \/ flowGraph # Some(flowEffects[e].graph)
  \/ flowBase # Some(flowEffects[e].base)

Settles(e) ==
  /\ e \in DOMAIN flowEffects
  /\ flowEffects[e].state = "pending"
  /\ flowEffects'[e].state # "pending"

\* what the mounted component shows once the layout of its latest render
\* has settled
LatestShown ==
  flowMounted =>
    IF flowGraph = None
    THEN flowNodes = <<>> /\ flowEdges = <<>>
    ELSE /\ Len(flowEffects) >= 1
         /\ LET latest == flowEffects[Len(flowEffects)]
                gr == flowGraph[1].graph
                base == flowBase[1]
            IN /\ latest.graph = flowGraph[1]
               /\ latest.base = base
               /\ ~latest.cancelled
               /\ latest.state = "resolved" =>
                    /\ flowNodes =
                         Positioned(base,
                                    elkLayout(elkNodes(gr), elkEdges(gr)))
                    /\ flowEdges = base.edges
               /\ latest.state = "rejected" =>
                    /\ flowNodes = base.nodes
                    /\ flowEdges = base.edges

\* C18: the resolution or rejection of a layout that is stale (the graph
\* or base changed, the graph became null, or the component unmounted while
\* it was pending) never changes nodes/edges, and under every interleaving
\* the mounted component shows, once the layout of its latest graph has
\* settled, the nodes and edges of that graph at the positions computed for
\* it (at the origin if that layout was rejected; nothing for a null graph).
C18_StaleLayoutsDropped ==
  /\ []LatestShown
  /\ [][\A e \in DOMAIN flowEffects :
          (Settles(e) /\ Stale(e)) => UNCHANGED <<flowNodes, flowEdges>>]_vars

\* a layout started for an earlier, different graph settled after it was
\* cancelled, and the layout of the latest graph has resolved and is shown
C18_Witness ==
  /\ flowMounted
  /\ flowGraph # None
  /\ Len(flowEffects) >= 2
  /\ flowEffects[Len(flowEffects)].state = "resolved"
  /\ Len(flowNodes) >= 3
  /\ \E e \in 1..(Len(flowEffects) - 1) :
       /\ flowEffects[e].state # "pending"
       /\ ~flowEffects[e].applied
       /\ flowEffects[e].graph.graph # flowGraph[1].graph

\* where the view draws a layout coordinate on the screen
ScreenX(u) == RAdd(view.offsetX, RMul(World(u), view.scale))
ScreenY(u) == RAdd(view.offsetY, RMul(World(u), view.scale))

\* fitToLayout set the view last, for the layout and the size of now
Fitted == viewOp = "fitToLayout" /\ fitDeps = FitDeps /\ CanFit

\* the bounding box lies inside the viewport inset by the padding
BoxInsidePadding ==
  /\ RLe(Whole(viewPadding), ScreenX(bounds.minX))
  /\ RLe(Whole(viewPadding), ScreenY(bounds.minY))
  /\ RLe(ScreenX(bounds.maxX), Whole(viewWidth - viewPadding))
  /\ RLe(ScreenY(bounds.maxY), Whole(viewHeight - viewPadding))

\* the box fits at a scale the view allows
FitsAtAllowedScale == RLe(Rat(1, 5), RMin(ScaleX, ScaleY))

\* C19 as claimed: after fit-to-bounds the scale is at most 1 and the
\* whole bounding box is drawn inside the viewport inset by 36 on every
\* side, for every layout size.
C19_Original ==
  Fitted =>
    /\ RLe(view.scale, Whole(1))
    /\ BoxInsidePadding

\* C19: after fit-to-bounds the scale is clamp(min(scaleX, scaleY, 1),
\* 0.2, 2), so between 0.2 and 1, and the top left corner of the bounding
\* box is drawn at (36, 36); the box lies inside the viewport inset by 36
\* when it fits there at a scale of at least 0.2, and otherwise the scale
\* is 0.2 and the box reaches beyond the inset viewport.
C19_FitRule ==
  Fitted =>
    /\ RLe(Rat(1, 5), view.scale)
    /\ RLe(view.scale, Whole(1))
    /\ ScreenX(bounds.minX) = Whole(viewPadding)
    /\ ScreenY(bounds.minY) = Whole(viewPadding)
    /\ FitsAtAllowedScale => BoxInsidePadding
    /\ ~FitsAtAllowedScale =>
         /\ view.scale = Rat(1, 5)
         /\ ~BoxInsidePadding

\* a fit that had to zoom out, with the box inside the inset viewport
C19_Witness ==
  /\ Fitted
  /\ Len(rects) >= 2
  /\ RLt(view.scale, Whole(1))
  /\ FitsAtAllowedScale
  /\ BoxInsidePadding

\* C20: from the initial view on, after any sequence of wheel zooms, zoom
\* button clicks, drags and fit/reset operations, 0.2 <= scale <= 3, and a
\* pan (pointer move of a drag) never changes the scale.
C20_ScaleRange ==
  /\ [](RLe(Rat(1, 5), view.scale) /\ RLe(view.scale, Whole(3)))
  /\ [][HandlePointerMove => view'.scale = view.scale]_vars

\* the scale was zoomed up to the upper end of the range, then the view
\* was panned
C20_Witness ==
  /\ view.scale = Whole(3)
  /\ viewOp = "handlePointerMove"
  /\ dragRef # None
  /\ dragRef[1].moved

\* the edges that go from row j (1-based) of nodes[k] to the node c
RowEdges(k, j, c) ==
  { e \in DOMAIN edges :
      /\ edges[e].from = nodes[k].id
      /\ edges[e].to = c
      /\ edges[e].fromRow = j - 1 }

\* C21: in the returned graph, for every edge e the row e.fromRow of the
\* node e.from has childId = e.to and is not the synthetic "more" row;
\* conversely every row with a childId c in a node p has exactly one edge
\* (from p, to c, fromRow = the index of the row) and c is the id of a node.
C21_EdgesMatchRows ==
  Returned =>
    /\ \A e \in DOMAIN edges :
         /\ HasNode(edges[e].from)
         /\ edges[e].fromRow + 1 \in DOMAIN NodeById(edges[e].from).rows
         /\ LET row == NodeById(edges[e].from).rows[edges[e].fromRow + 1]
            IN row.childId = edges[e].to /\ row.key # MoreKey
    /\ \A k \in DOMAIN nodes : \A j \in DOMAIN nodes[k].rows :
         LET c == nodes[k].rows[j].childId
         IN c # Undefined =>
              /\ Cardinality(RowEdges(k, j, c)) = 1
              /\ HasNode(c)
              /\ Cardinality({ e \in DOMAIN edges : edges[e].to = c }) = 1

\* a parent with a row that has a child and with a "more" row after it
C21_Witness ==
  /\ Returned
  /\ Len(edges) >= 1
  /\ \E k \in DOMAIN nodes : \E j \in DOMAIN nodes[k].rows :
       /\ nodes[k].rows[j].childId # Undefined
       /\ nodes[k].rows[Len(nodes[k].rows)].key = MoreKey

(***************************************************************************)
(* Properties of one recorded call l = [graph, rects, bounds] of           *)
(* layoutJsonGraph.                                                        *)
(***************************************************************************)
NodeIn(g, id) == \E k \in DOMAIN g.nodes : g.nodes[k].id = id
EdgesFrom(g, id) == { e \in DOMAIN g.edges : g.edges[e].from = id }
EdgesTo(g, id) == { e \in DOMAIN g.edges : g.edges[e].to = id }

\* the number of edges between id and its ancestor that has no parent, and
\* that ancestor (the graphs recorded have at most one edge into a node)
RECURSIVE DepthIn(_, _), TopOf(_, _)
DepthIn(g, id) ==
  IF EdgesTo(g, id) = {} THEN 0
  ELSE 1 + DepthIn(g, g.edges[CHOOSE e \in EdgesTo(g, id) : TRUE].from)
TopOf(g, id) ==
  IF EdgesTo(g, id) = {} THEN id
  ELSE TopOf(g, g.edges[CHOOSE e \in EdgesTo(g, id) : TRUE].from)

ReachableIn(g, id) == NodeIn(g, id) /\ TopOf(g, id) = g.rootId

\* twice the vertical centre of the rectangle of id
Centre2(l, id) == 2 * RectOf(l.rects, id).y + RectOf(l.rects, id).h

\* the edges from id of the least and of the greatest fromRow
FirstEdge(g, id) ==
  CHOOSE e \in EdgesFrom(g, id) :
    \A f \in EdgesFrom(g, id) : g.edges[e].fromRow <= g.edges[f].fromRow
LastEdge(g, id) ==
  CHOOSE e \in EdgesFrom(g, id) :
    \A f \in EdgesFrom(g, id) : g.edges[e].fromRow >= g.edges[f].fromRow

\* C22: in every layout, a node reached from the root that has a child is
\* centred vertically on the midpoint of the centres of its first and its
\* last child in fromRow order (on the child's centre if it has one child).
C22_ParentCentred ==
  \A n \in DOMAIN layouts :
    LET l == layouts[n]
        g == l.graph
    IN \A k \in DOMAIN g.nodes :
         LET id == g.nodes[k].id
         IN (ReachableIn(g, id) /\ EdgesFrom(g, id) # {}) =>
              /\ 2 * Centre2(l, id)
                   = Centre2(l, g.edges[FirstEdge(g, id)].to)
                     + Centre2(l, g.edges[LastEdge(g, id)].to)
              /\ Cardinality(EdgesFrom(g, id)) = 1 =>
                   Centre2(l, id) = Centre2(l, g.edges[FirstEdge(g, id)].to)

\* a parent of two children in a layout whose edges are not in row order
C22_Witness ==
  \E n \in DOMAIN layouts :
    LET g == layouts[n].graph
    IN \E k \in DOMAIN g.nodes :
         /\ ReachableIn(g, g.nodes[k].id)
         /\ Cardinality(EdgesFrom(g, g.nodes[k].id)) = 2
         /\ FirstEdge(g, g.nodes[k].id) > LastEdge(g, g.nodes[k].id)
         /\ Centre2(layouts[n], g.nodes[k].id)
              # Centre2(layouts[n], g.edges[FirstEdge(g, g.nodes[k].id)].to)

\* the card size every rectangle of the layout l has
CardSized(l) ==
  \A k \in DOMAIN l.graph.nodes :
    LET r == RectOf(l.rects, l.graph.nodes[k].id)
    IN /\ r.w = Px(nodeWidth)
       /\ r.h = Px(2 * paddingY + headerHeight
                   + Len(l.graph.nodes[k].rows) * rowHeight)

\* C23 as stated: every node reached from the root has
\* x = depth * (card width + horizontal gap), and every card has the common
\* width and the height 2 * padding + header + rows * row height.
C23_Original ==
  \A n \in DOMAIN layouts :
    /\ CardSized(layouts[n])
    /\ \A k \in DOMAIN layouts[n].graph.nodes :
         LET id == layouts[n].graph.nodes[k].id
         IN ReachableIn(layouts[n].graph, id) =>
              RectOf(layouts[n].rects, id).x
                = Px(DepthIn(layouts[n].graph, id) * (nodeWidth + xGap))

\* C23 (amended): every node reached from the root has
\* x = padding + depth * (nodeWidth + xGap), the canvas margin plus one column
\* per level; every card is nodeWidth wide and
\* 2 * paddingY + headerHeight + rows.length * rowHeight high.
C23_ColumnPerDepth ==
  \A n \in DOMAIN layouts :
    /\ CardSized(layouts[n])
    /\ \A k \in DOMAIN layouts[n].graph.nodes :
         LET id == layouts[n].graph.nodes[k].id
         IN ReachableIn(layouts[n].graph, id) =>
              RectOf(layouts[n].rects, id).x
                = Px(padding)
                  + Px(DepthIn(layouts[n].graph, id) * (nodeWidth + xGap))

\* a layout with reached nodes at depth 1 and at depth 2 that differ in
\* their number of rows
C23_Witness ==
  \E n \in DOMAIN layouts :
    LET g == layouts[n].graph
    IN \E j, k \in DOMAIN g.nodes :
         /\ ReachableIn(g, g.nodes[j].id) /\ DepthIn(g, g.nodes[j].id) = 1
         /\ ReachableIn(g, g.nodes[k].id) /\ DepthIn(g, g.nodes[k].id) = 2
         /\ Len(g.nodes[j].rows) # Len(g.nodes[k].rows)

\* C24: in every layout, of two children of a node reached from the root the
\* one whose edge has the smaller fromRow has the strictly smaller vertical
\* centre, wherever the two edges stand in graph.edges.
C24_RowOrder ==
  \A n \in DOMAIN layouts :
    LET l == layouts[n]
        g == l.graph
    IN \A e, f \in DOMAIN g.edges :
         (/\ g.edges[e].from = g.edges[f].from
          /\ ReachableIn(g, g.edges[e].from)
          /\ g.edges[e].fromRow < g.edges[f].fromRow)
           => Centre2(l, g.edges[e].to) < Centre2(l, g.edges[f].to)

\* a layout of a graph that lists the edge of the later row first, the two
\* children being parents themselves
C24_Witness ==
  \E n \in DOMAIN layouts :
    LET g == layouts[n].graph
    IN \E e, f \in DOMAIN g.edges :
         /\ e < f
         /\ g.edges[e].from = g.rootId /\ g.edges[f].from = g.rootId
         /\ g.edges[e].fromRow > g.edges[f].fromRow
         /\ EdgesFrom(g, g.edges[e].to) # {}
         /\ EdgesFrom(g, g.edges[f].to) # {}

\* the positions in g.nodes of the nodes the traversal from the root misses
UnreachedIn(g) == { k \in DOMAIN g.nodes : ~ReachableIn(g, g.nodes[k].id) }

\* C25: in every layout each node has a rectangle; a node not reached from
\* the root starts at or below the bottom of every rectangle of a reached
\* node; and the unreached nodes are stacked in the order of graph.nodes,
\* each yGap below the one before.
C25_UnreachedBelow ==
  \A n \in DOMAIN layouts :
    LET l == layouts[n]
        g == l.graph
    IN /\ \A k \in DOMAIN g.nodes : HasRect(l.rects, g.nodes[k].id)
       /\ \A u \in UnreachedIn(g) : \A k \in DOMAIN g.nodes :
            ReachableIn(g, g.nodes[k].id) =>
              RectOf(l.rects, g.nodes[u].id).y
                >= RectOf(l.rects, g.nodes[k].id).y
                   + RectOf(l.rects, g.nodes[k].id).h
       /\ \A u, v \in UnreachedIn(g) :
            (u < v /\ \A m \in UnreachedIn(g) : ~(u < m /\ m < v)) =>
              RectOf(l.rects, g.nodes[v].id).y
                = RectOf(l.rects, g.nodes[u].id).y
                  + RectOf(l.rects, g.nodes[u].id).h + Px(yGap)

\* C26: in every layout the bounds are the least box holding every
\* rectangle: each rectangle lies inside them and each of the four sides is
\* touched by some rectangle; the layout of a graph with no nodes has no
\* rectangles and the bounds (0, 0, 0, 0).
C26_TightBounds ==
  \A n \in DOMAIN layouts :
    LET rs == layouts[n].rects
        b == layouts[n].bounds
    IN /\ \A k \in DOMAIN rs :
            /\ b.minX <= rs[k].x /\ rs[k].x + rs[k].w <= b.maxX
            /\ b.minY <= rs[k].y /\ rs[k].y + rs[k].h <= b.maxY
       /\ rs # <<>> =>
            /\ \E k \in DOMAIN rs : rs[k].x = b.minX
            /\ \E k \in DOMAIN rs : rs[k].y = b.minY
            /\ \E k \in DOMAIN rs : rs[k].x + rs[k].w = b.maxX
            /\ \E k \in DOMAIN rs : rs[k].y + rs[k].h = b.maxY
       /\ layouts[n].graph.nodes = <<>> =>
            /\ rs = <<>>
            /\ b = [minX |-> 0, minY |-> 0, maxX |-> 0, maxY |-> 0]

\* a layout whose top side is set by a parent card reaching above the margin
\* and whose right side is set by another card
C26_Witness ==
  \E n \in DOMAIN layouts :
    LET rs == layouts[n].rects
        b == layouts[n].bounds
    IN /\ Len(rs) >= 3
       /\ b.minY < Px(padding)
       /\ \E j, k \in DOMAIN rs :
            /\ rs[j].y = b.minY /\ rs[j].x + rs[j].w < b.maxX
            /\ rs[k].x + rs[k].w = b.maxX /\ rs[k].y + rs[k].h < b.maxY

\* the layout of the graph with no nodes
C26_EmptyGraph ==
  \E n \in DOMAIN layouts : layouts[n].graph.nodes = <<>>

\* C27: in every state of the build and after the return, truncated is true
\* exactly when some truncatedBy flag is; and no step clears a flag that is
\* set (several flags may be set together).
C27_FlagsAgree ==
  /\ [](truncated <=> \E r \in DOMAIN truncatedBy : truncatedBy[r])
  /\ [][\A r \in DOMAIN truncatedBy : truncatedBy[r] => truncatedBy'[r]]_vars

\* a returned graph cut short for two reasons at once
C27_Witness ==
  /\ Returned
  /\ truncated
  /\ Cardinality({ r \in DOMAIN truncatedBy : truncatedBy[r] }) >= 2

\* the number of rows the loop gives the node of a queue item
RowsDue(item) ==
  LET len == Len(item.value.items)
  IN Min(len, maxChildrenPerNode)
       + (IF len > maxChildrenPerNode THEN 1 ELSE 0)

\* C28: every call of buildJsonGraph returns; the queue holds each created
\* node once, in creation order; the loop counter passes the queue one item
\* at a time and stands at nodes.length at the return, where every container
\* node has its rows filled.
C28_Terminates ==
  /\ <>Returned
  /\ [](pc # "start" =>
          /\ Len(queue) = Len(nodes)
          /\ \A k \in DOMAIN queue : queue[k].id = nodes[k].id
          /\ qi <= Len(queue))
  /\ [][qi' = qi \/ qi' = qi + 1]_vars
  /\ [](Returned =>
          /\ qi = Len(nodes)
          /\ \A k \in DOMAIN nodes :
               isContainer(queue[k].value) =>
                 Len(nodes[k].rows) = RowsDue(queue[k]))

\* a returned graph of three nodes or more, one of them with a row for
\* every member and one with fewer rows than members plus the "more" row
C28_Witness ==
  /\ Returned
  /\ Len(nodes) >= 3
  /\ qi = Len(nodes)
  /\ \E k \in DOMAIN nodes :
       /\ Len(queue[k].value.items) > maxChildrenPerNode
       /\ Len(nodes[k].rows) = maxChildrenPerNode + 1
  /\ \E k \in DOMAIN nodes :
       /\ Len(queue[k].value.items) > 0
       /\ Len(nodes[k].rows) = Len(queue[k].value.items)

\* the keys a path is extended by in the injectivity check: two indices, an
\* identifier, the strings that read like the indices, and a key with a
\* double quote
KeySamples ==
  {NumKey(0), NumKey(1), StrKey("a"), StrKey("0"), StrKey("1"),
   StrKey("q\"")}

\* the path of the child a row leads to, written out for the keys used
ChildPath(parent, rowIndex) ==
  LET key == parent.rows[rowIndex + 1].key
  IN IF parent.type = "array"
     THEN parent.path \o "[" \o ToString(rowIndex) \o "]"
     ELSE IF key \in {"a", "b", "c", "d", "e"} THEN parent.path \o "." \o key
     ELSE IF key = "q\"" THEN parent.path \o "[\"q\\\"\"]"
     ELSE parent.path \o "[\"" \o key \o "\"]"

\* C29: in every returned graph the root has the path "$", the path of a
\* child is its parent's path followed by [N] for the index N, by .key for an
\* identifier key and by ["escaped key"] for any other key, no two nodes
\* share a path, and extending the paths of the graph by keys gives equal
\* results only for the same path and the same key.
C29_DistinctPaths ==
  Returned =>
    /\ nodes[1].path = "$"
    /\ \A j, k \in DOMAIN nodes : nodes[j].path = nodes[k].path => j = k
    /\ \A e \in DOMAIN edges :
         NodeById(edges[e].to).path
           = ChildPath(NodeById(edges[e].from), edges[e].fromRow)
    /\ \A j, k \in DOMAIN nodes : \A a, b \in KeySamples :
         jsonPathAppend(nodes[j].path, a) = jsonPathAppend(nodes[k].path, b)
           => (j = k /\ a = b)

\* a returned graph with a node below a key that is escaped
C29_Witness ==
  /\ Returned
  /\ \E k \in DOMAIN nodes : nodes[k].path = "$[\"q\\\"\"][0]"

\* the completed operations that leave a parsed value behind them
Granting ==
  { Op(o, TRUE) : o \in {"formatted", "minified", "validate", "unescape"} }

\* C30 as stated: a parsed value (and with it a graph) is present only if
\* the operation completed last was a successful format, minify or validate
\* or an unescape whose result parsed.
C30_Original == parsedValue # None => lastOp \in Granting

\* C30 (amended): a parsed value is present only if the operation completed
\* last, leaving aside the pastes and file loads that failed, was a
\* successful format, minify or validate or an unescape whose result parsed;
\* and every step that changes the input leaves no parsed value.
C30_GraphOnlyAfterParse ==
  /\ [](parsedValue # None => lastActing \in Granting)
  /\ [][input' # input => parsedValue' = None]_vars

\* a parsed value that outlived a failed paste while a file load is in
\* flight
C30_Witness ==
  /\ parsedValue # None
  /\ lastOp = Op("paste", FALSE)
  /\ lastActing = Op("unescape", TRUE)
  /\ filePending > 0

====
